---------------------------- MODULE Spec2Model ----------------------------
(***************************************************************************)
(* InspectPozo API (app/main.py, app/models.py): the identifier allocator, *)
(* the pipe geometry deriver and the ownership guard, as a state machine   *)
(* over the three tables proyecto, estructura_hidraulica and tuberia.      *)
(*                                                                         *)
(* Text (identifiers, WKT) is a sequence of one-character strings, so that *)
(* strip / startswith / split / int() / float() / f-string formatting are  *)
(* computed character by character, as the Python code computes them.      *)
(* A float is the integer number of hundredths it denotes (Scale).         *)
(* An Optional[float] is <<>> (None) or <<v>>.  A NULL text column is      *)
(* NullText.                                                               *)
(***************************************************************************)
EXTENDS Integers, Sequences, FiniteSets, TLC

VARIABLES
    proyecto,       \* table proyecto: id -> [id_usuario]
    seq_proyecto,   \* the serial behind proyecto.id (last value handed out)
    estructura,     \* table estructura_hidraulica: id -> row
    tuberia,        \* table tuberia: id -> row
    tx,             \* the crear_tuberia requests in flight, one per worker
    resp            \* the last response sent (operation, user, status, body)

vars == <<proyecto, seq_proyecto, estructura, tuberia, tx, resp>>

-----------------------------------------------------------------------------
(* Bounds of the model *)

\* pipes that may be stored at once
MaxTuberias == 2
\* projects that may ever be created (values of the serial)
MaxProyectos == 2
\* rows of the scanned table in the initial database of SpecAlloc
MaxIds == 3

-----------------------------------------------------------------------------
(* Python str operations on sequences of characters *)

None == <<>>
NullText == <<"NULL">>

IsSpace(c) == c = " "

LowerChar(c) ==
    CASE c = "T" -> "t" [] c = "U" -> "u" [] c = "B" -> "b"
      [] c = "P" -> "p" [] c = "Z" -> "z" [] c = "S" -> "s"
      [] c = "M" -> "m" [] c = "E" -> "e" [] c = "O" -> "o"
      [] c = "I" -> "i" [] c = "N" -> "n" [] c = "L" -> "l"
      [] c = "R" -> "r" [] c = "G" -> "g" [] c = "D" -> "d"
      [] OTHER -> c

\* str.lower()
Lower(s) == [i \in DOMAIN s |-> LowerChar(s[i])]

\* str.startswith(p)
StartsWith(s, p) == Len(s) >= Len(p) /\ SubSeq(s, 1, Len(p)) = p

\* str.endswith(p)
EndsWith(s, p) == Len(s) >= Len(p) /\ SubSeq(s, Len(s) - Len(p) + 1, Len(s)) = p

RECURSIVE LStrip(_)
LStrip(s) == IF s # <<>> /\ IsSpace(Head(s)) THEN LStrip(Tail(s)) ELSE s

RECURSIVE RStrip(_)
RStrip(s) ==
    IF s # <<>> /\ IsSpace(s[Len(s)]) THEN RStrip(SubSeq(s, 1, Len(s) - 1)) ELSE s

\* str.strip()
Strip(s) == RStrip(LStrip(s))

\* s[n:]
SliceFrom(s, n) == SubSeq(s, n + 1, Len(s))

\* str.find(c): 0-based index of the first c, or -1
Find(s, c) ==
    IF \E i \in DOMAIN s : s[i] = c
    THEN (CHOOSE i \in DOMAIN s : s[i] = c /\ \A j \in 1..(i - 1) : s[j] # c) - 1
    ELSE -1

\* str.replace(a, b) for single characters
Replace(s, a, b) == [i \in DOMAIN s |-> IF s[i] = a THEN b ELSE s[i]]

\* str.split(c): the pieces between the occurrences of c (empty pieces kept)
RECURSIVE SplitOn(_, _)
SplitOn(s, c) ==
    LET k == Find(s, c)
    IN  IF k = -1 THEN <<s>>
        ELSE <<SubSeq(s, 1, k)>> \o SplitOn(SliceFrom(s, k + 1), c)

\* str.split(): the maximal runs of non-whitespace
RECURSIVE Split(_)
Split(s) ==
    LET t == LStrip(s)
        k == Find(t, " ")
    IN  IF t = <<>> THEN <<>>
        ELSE IF k = -1 THEN <<t>>
        ELSE <<SubSeq(t, 1, k)>> \o Split(SliceFrom(t, k))

DigitChars == <<"0", "1", "2", "3", "4", "5", "6", "7", "8", "9">>

IsDigit(c) == \E i \in 1..10 : DigitChars[i] = c

DigitVal(c) == (CHOOSE i \in 1..10 : DigitChars[i] = c) - 1

RECURSIVE DigitsVal(_)
DigitsVal(s) ==
    IF s = <<>> THEN 0
    ELSE 10 * DigitsVal(SubSeq(s, 1, Len(s) - 1)) + DigitVal(s[Len(s)])

AllDigits(s) == s # <<>> /\ \A i \in DOMAIN s : IsDigit(s[i])

\* int(s): surrounding whitespace stripped, an optional sign, then decimal
\* digits; anything else raises ValueError (ok = FALSE).
PyInt(s) ==
    LET t == Strip(s)
        signed == t # <<>> /\ t[1] \in {"-", "+"}
        body == IF signed THEN Tail(t) ELSE t
    IN  IF AllDigits(body)
        THEN [ok |-> TRUE,
              val |-> IF signed /\ t[1] = "-" THEN 0 - DigitsVal(body)
                      ELSE DigitsVal(body)]
        ELSE [ok |-> FALSE, val |-> 0]

RECURSIVE NatToStr(_)
NatToStr(n) ==
    IF n < 10 THEN <<DigitChars[n + 1]>>
    ELSE NatToStr(n \div 10) \o <<DigitChars[(n % 10) + 1]>>

RECURSIVE ZeroFill(_, _)
ZeroFill(s, width) == IF Len(s) >= width THEN s ELSE ZeroFill(<<"0">> \o s, width)

\* f"{n:04d}": sign first, then zeros up to a total width of 4
Pad4(n) ==
    IF n < 0 THEN <<"-">> \o ZeroFill(NatToStr(0 - n), 3)
    ELSE ZeroFill(NatToStr(n), 4)


-----------------------------------------------------------------------------
(* Identifier allocation: main.py get_next_estructura_id, get_next_tuberia_id *)
(* and step 1 of crear_tuberia                                               *)

S_pz == <<"p", "z">>
S_sm == <<"s", "m">>
S_es == <<"e", "s">>
S_tub == <<"t", "u", "b">>
S_pozo == <<"p", "o", "z", "o">>
S_sumidero == <<"s", "u", "m", "i", "d", "e", "r", "o">>

\* tipo_norm = tipo.strip().lower(); prefix by tipo_norm
\* the comparison without tipo.strip()
TipoPrefixNoStrip(tipo) ==
    LET tipo_norm == Lower(tipo)
    IN  IF tipo_norm = S_pozo THEN S_pz
        ELSE IF tipo_norm = S_sumidero THEN S_sm
        ELSE S_es

\* tipo_norm = tipo.strip().lower(); pz for "pozo", sm for "sumidero", else es
TipoPrefix(tipo) ==
    LET tipo_norm == Lower(Strip(tipo))
    IN  IF tipo_norm = S_pozo THEN S_pz
        ELSE IF tipo_norm = S_sumidero THEN S_sm
        ELSE S_es

\* EstructuraHidraulica.id.ilike(f"{prefix}%"): the ids that start with the
\* prefix, whatever their case
IlikePrefix(ids, prefix) == {sid \in ids : StartsWith(Lower(sid), prefix)}

\* the try block without its except clause: a ValueError ends the request
TryRowUncaught(scan, sid, prefix) ==
    LET num_part == SliceFrom(sid, Len(prefix))
        num == PyInt(num_part)
    IN  IF ~num.ok THEN [scan EXCEPT !.raised = TRUE]
        ELSE IF num.val > scan.max_num THEN [scan EXCEPT !.max_num = num.val]
        ELSE scan

\* The try block of the scan for one row.  scan = [raised, max_num]; an
\* exception that the except clause does not catch would end the request.
\* (IndexError, ValueError) are caught: the row is skipped.
TryRow(scan, sid, prefix) ==
    LET num_part == SliceFrom(sid, Len(prefix))
        num == PyInt(num_part)
    IN  IF ~num.ok THEN scan
        ELSE IF num.val > scan.max_num THEN [scan EXCEPT !.max_num = num.val]
        ELSE scan

\* for (sid,) in rows: try ... except (IndexError, ValueError): continue
RECURSIVE ScanEstructuraRows(_, _, _)
ScanEstructuraRows(rows, prefix, scan) ==
    IF rows = {} \/ scan.raised THEN scan
    ELSE LET sid == CHOOSE r \in rows : TRUE
         IN  ScanEstructuraRows(rows \ {sid}, prefix, TryRow(scan, sid, prefix))

\* One row of the pipe scan: falsy ids and ids without the prefix are skipped
\* before the try block.
ScanTuberiaRow(scan, tid, prefix) ==
    IF tid = <<>> \/ tid = NullText THEN scan
    ELSE IF ~StartsWith(Lower(tid), prefix) THEN scan
    ELSE TryRow(scan, tid, prefix)

RECURSIVE ScanTuberiaRows(_, _, _)
ScanTuberiaRows(rows, prefix, scan) ==
    IF rows = {} \/ scan.raised THEN scan
    ELSE LET tid == CHOOSE r \in rows : TRUE
         IN  ScanTuberiaRows(rows \ {tid}, prefix, ScanTuberiaRow(scan, tid, prefix))

\* max_num = 0 before the loop
ScanStart == [raised |-> FALSE, max_num |-> 0]

\* the identifier of max_num itself, without the increment
FormatIdNoIncrement(prefix, max_num) == prefix \o Pad4(max_num)

\* next_num = max_num + 1; new_id = f"{prefix}{next_num:04d}"
FormatId(prefix, max_num) == prefix \o Pad4(max_num + 1)

-----------------------------------------------------------------------------
(* Rows, requests and responses *)

Usuarios == {1, 2}
Workers == {1, 2}

\* a row of estructura_hidraulica (the columns the handlers compute with)
EstructuraRow(tipo, geometria, cota_estructura, id_proyecto) ==
    [tipo |-> tipo, geometria |-> geometria,
     cota_estructura |-> cota_estructura, id_proyecto |-> id_proyecto]

\* a request in flight in crear_tuberia: its position and its local variables
TxIdle ==
    [pc |-> "idle", user |-> 0, data |-> <<>>, max_num |-> 0,
     new_pipe_id |-> <<>>, geom |-> <<>>,
     cota_clave_inicio_calc |-> None, cota_clave_destino_calc |-> None]

\* a response: the operation, its user, the HTTP status, the identifier in the
\* body (if any) and the argument of the request that the statements about
\* the operation need (if any)
Resp(op, user, status, body, arg) ==
    [op |-> op, user |-> user, status |-> status, body |-> body, arg |-> arg]

RespNone == Resp("none", 0, 0, <<>>, <<>>)

-----------------------------------------------------------------------------
(* WKT: main.py _parse_point_wkt, _get_point_from_structure and the f-string *)
(* that builds the pipe's LINESTRING                                         *)

S_point == <<"p", "o", "i", "n", "t", "(">>

\* hundredths per unit in the integer that stands for a float
Scale == 100

\* float(tok): an optional sign, digits, optionally a point and digits, at
\* least one digit in all; anything else raises ValueError (ok = FALSE).
\* Tokens of the model carry at most two decimals, which val holds exactly.
PyFloat(tok) ==
    LET signed == tok # <<>> /\ tok[1] \in {"-", "+"}
        body == IF signed THEN Tail(tok) ELSE tok
        k == Find(body, ".")
        ipart == IF k = -1 THEN body ELSE SubSeq(body, 1, k)
        fpart == IF k = -1 THEN <<>> ELSE SliceFrom(body, k + 1)
        wellformed ==
            /\ \A i \in DOMAIN ipart : IsDigit(ipart[i])
            /\ \A i \in DOMAIN fpart : IsDigit(fpart[i])
            /\ Len(ipart) + Len(fpart) > 0
        f2 == SubSeq(fpart \o <<"0", "0">>, 1, 2)
        mag == Scale * DigitsVal(ipart) + DigitsVal(f2)
    IN  IF wellformed
        THEN [ok |-> TRUE, val |-> IF signed /\ tok[1] = "-" THEN 0 - mag ELSE mag]
        ELSE [ok |-> FALSE, val |-> 0]

\* a float written with one decimal only
FormatFloatOneDecimal(v) ==
    LET mag == IF v < 0 THEN 0 - v ELSE v
        f == mag % Scale
    IN  (IF v < 0 THEN <<"-">> ELSE <<>>) \o NatToStr(mag \div Scale)
        \o <<".", DigitChars[(f \div 10) + 1]>>


\* f"{x}" of a float: repr, the shortest decimal that reads back as x, with at
\* least one decimal
FormatFloat(v) ==
    LET mag == IF v < 0 THEN 0 - v ELSE v
        f == mag % Scale
        frac == IF f % 10 = 0 THEN <<DigitChars[(f \div 10) + 1]>>
                ELSE <<DigitChars[(f \div 10) + 1], DigitChars[(f % 10) + 1]>>
    IN  (IF v < 0 THEN <<"-">> ELSE <<>>) \o NatToStr(mag \div Scale) \o <<".">> \o frac

PointError == [ok |-> FALSE, x |-> 0, y |-> 0]

\* the parser without inner.replace(",", " "): only blanks separate tokens
ParsePointWktBlanksOnly(wkt) ==
    IF wkt = NullText \/ wkt = <<>> THEN PointError
    ELSE LET txt == Strip(wkt)
         IN  IF ~StartsWith(Lower(txt), S_point) \/ ~EndsWith(txt, <<")">>)
             THEN PointError
             ELSE LET inner == Strip(SubSeq(txt, Find(txt, "(") + 2, Len(txt) - 1))
                      parts == Split(inner)
                  IN  IF Len(parts) # 2 THEN PointError
                      ELSE LET x == PyFloat(parts[1])
                               y == PyFloat(parts[2])
                           IN  IF x.ok /\ y.ok
                               THEN [ok |-> TRUE, x |-> x.val, y |-> y.val]
                               ELSE PointError


\* _parse_point_wkt: (x, y), or ValueError (ok = FALSE)
ParsePointWkt(wkt) ==
    IF wkt = NullText \/ wkt = <<>> THEN PointError
    ELSE LET txt == Strip(wkt)
         IN  IF ~StartsWith(Lower(txt), S_point) \/ ~EndsWith(txt, <<")">>)
             THEN PointError
             ELSE LET inner == Strip(SubSeq(txt, Find(txt, "(") + 2, Len(txt) - 1))
                      parts == Split(Replace(inner, ",", " "))
                  IN  IF Len(parts) # 2 THEN PointError
                      ELSE LET x == PyFloat(parts[1])
                               y == PyFloat(parts[2])
                           IN  IF x.ok /\ y.ok
                               THEN [ok |-> TRUE, x |-> x.val, y |-> y.val]
                               ELSE PointError

S_linestring == <<"l", "i", "n", "e", "s", "t", "r", "i", "n", "g", "(">>

\* the for loop of _parse_linestring_wkt from part i on.  r = [raised,
\* coords]; float() is called outside any try block, so its ValueError
\* leaves the function (raised = TRUE).
RECURSIVE ParseParts(_, _, _)
ParseParts(parts, i, r) ==
    IF i > Len(parts) \/ r.raised THEN r
    ELSE LET tokens == Split(Strip(parts[i]))
         IN  IF Len(tokens) # 2 THEN ParseParts(parts, i + 1, r)
             ELSE LET x == PyFloat(tokens[1])
                      y == PyFloat(tokens[2])
                  IN  IF x.ok /\ y.ok
                      THEN ParseParts(parts, i + 1,
                                      [r EXCEPT !.coords = Append(@, <<x.val, y.val>>)])
                      ELSE [r EXCEPT !.raised = TRUE]

\* _parse_linestring_wkt: [[x1, y1], [x2, y2], ...]
ParseLineStringWkt(wkt) ==
    IF wkt = NullText \/ wkt = <<>> THEN [raised |-> FALSE, coords |-> <<>>]
    ELSE LET txt == Strip(wkt)
         IN  IF ~StartsWith(Lower(txt), S_linestring) \/ ~EndsWith(txt, <<")">>)
             THEN [raised |-> FALSE, coords |-> <<>>]
             ELSE LET inner == Strip(SubSeq(txt, Find(txt, "(") + 2, Len(txt) - 1))
                      parts == SplitOn(inner, ",")
                  IN  ParseParts(parts, 1, [raised |-> FALSE, coords |-> <<>>])


\* a lookup that gives the origin instead of raising
GetPointFromStructureOrOrigin(est, estructura_id) ==
    LET wkt == IF estructura_id \in DOMAIN est THEN est[estructura_id].geometria
               ELSE NullText
    IN  IF ParsePointWkt(wkt).ok THEN ParsePointWkt(wkt)
        ELSE [ok |-> TRUE, x |-> 0, y |-> 0]

\* _get_point_from_structure: SELECT ST_AsText(geometria) ... WHERE id = :id
\* gives the stored text of the row, or None when there is no row or the
\* column is NULL; "if not wkt" raises, else the text is parsed.
GetPointFromStructure(est, estructura_id) ==
    LET wkt == IF estructura_id \in DOMAIN est THEN est[estructura_id].geometria
               ELSE NullText
    IN  ParsePointWkt(wkt)

\* the line drawn from the end point to the start point
FormatLineStringReversed(x1, y1, x2, y2) ==
    <<"L", "I", "N", "E", "S", "T", "R", "I", "N", "G", "(">>
    \o FormatFloat(x2) \o <<" ">> \o FormatFloat(y2) \o <<",", " ">>
    \o FormatFloat(x1) \o <<" ">> \o FormatFloat(y1) \o <<")">>

\* geom = f"LINESTRING({x1} {y1}, {x2} {y2})"
FormatLineString(x1, y1, x2, y2) ==
    <<"L", "I", "N", "E", "S", "T", "R", "I", "N", "G", "(">>
    \o FormatFloat(x1) \o <<" ">> \o FormatFloat(y1) \o <<",", " ">>
    \o FormatFloat(x2) \o <<" ">> \o FormatFloat(y2) \o <<")">>

\* the derivation that keeps the caller's cota_clave when one is given
CotaClaveCalcCallerFirst(cota_clave, cota_estructura, profundidad_clave) ==
    IF cota_clave # None THEN cota_clave
    ELSE IF cota_estructura # None /\ profundidad_clave # None
    THEN <<cota_estructura[1] - profundidad_clave[1]>>
    ELSE cota_clave


\* cota_clave = cota_estructura - profundidad_clave when both are given,
\* else the value of the request
CotaClaveCalc(cota_clave, cota_estructura, profundidad_clave) ==
    IF cota_estructura # None /\ profundidad_clave # None
    THEN <<cota_estructura[1] - profundidad_clave[1]>>
    ELSE cota_clave

-----------------------------------------------------------------------------
(* The ownership guard and the persistence layer *)

\* db.query(Proyecto).filter(Proyecto.id == p, Proyecto.id_usuario == user.id)
ProyectoDeUsuario(p, u) == p \in DOMAIN proyecto /\ proyecto[p].id_usuario = u

\* proyectos_ids_usuario
ProyectosIdsUsuario(u) == {p \in DOMAIN proyecto : proyecto[p].id_usuario = u}

\* the join estructura -> proyecto filtered by Proyecto.id_usuario == user.id
EstructuraDeUsuario(e, u) ==
    e \in DOMAIN estructura /\ ProyectoDeUsuario(estructura[e].id_proyecto, u)

\* the join tuberia -> estructura (by id_estructura_inicio) -> proyecto
TuberiaDeUsuario(t, u) ==
    t \in DOMAIN tuberia /\ EstructuraDeUsuario(tuberia[t].id_estructura_inicio, u)

\* the rows of tuberia that the relationships tuberias_inicio and
\* tuberias_destino of the structures in ests load
TuberiasDe(ests) ==
    {t \in DOMAIN tuberia : tuberia[t].id_estructura_inicio \in ests
                            \/ tuberia[t].id_estructura_destino \in ests}

Without(f, S) == [i \in DOMAIN f \ S |-> f[i]]

\* db.delete(estructura) for the structures in ests, at flush.  The
\* relationships tuberias_inicio / tuberias_destino (models.py 128-138) carry
\* no delete cascade and no passive_deletes, so the unit of work loads the
\* dependent pipes and sets their foreign key to NULL before the DELETE; both
\* columns are nullable=False (models.py 176-186), so that UPDATE violates
\* NOT NULL and the flush raises IntegrityError.  The ON DELETE CASCADE of the
\* foreign keys is never reached when a pipe depends on the structure.
OrmDeleteRaises(ests) == TuberiasDe(ests) # {}

-----------------------------------------------------------------------------
(* Projects *)

\* POST /proyectos/
CrearProyecto(u) ==
    /\ seq_proyecto < MaxProyectos
    /\ seq_proyecto' = seq_proyecto + 1
    /\ proyecto' = proyecto @@ (seq_proyecto' :> [id_usuario |-> u])
    /\ resp' = Resp("crear_proyecto", u, 200, <<>>, <<>>)
    /\ UNCHANGED <<estructura, tuberia, tx>>

\* DELETE /proyectos/{proyecto_id}: the project's structures are deleted by
\* the ORM cascade "all, delete-orphan" of Proyecto.estructuras_hidraulicas.
EliminarProyecto(u, proyecto_id) ==
    LET ests == {e \in DOMAIN estructura : estructura[e].id_proyecto = proyecto_id}
    IN  /\ IF ~ProyectoDeUsuario(proyecto_id, u)
           THEN /\ resp' = Resp("eliminar_proyecto", u, 404, <<>>, <<>>)
                /\ UNCHANGED <<proyecto, estructura>>
           ELSE IF OrmDeleteRaises(ests)
           THEN /\ resp' = Resp("eliminar_proyecto", u, 500, <<>>, <<>>)
                /\ UNCHANGED <<proyecto, estructura>>
           ELSE /\ proyecto' = Without(proyecto, {proyecto_id})
                /\ estructura' = Without(estructura, ests)
                /\ resp' = Resp("eliminar_proyecto", u, 200, <<>>, <<>>)
        /\ UNCHANGED <<seq_proyecto, tuberia, tx>>

-----------------------------------------------------------------------------
(* Structures *)

\* GET /estructuras/next-id
GetNextEstructuraId(u, tipo) ==
    LET prefix == TipoPrefix(tipo)
        rows == IlikePrefix(DOMAIN estructura, prefix)
        scan == ScanEstructuraRows(rows, prefix, ScanStart)
    IN  /\ resp' = IF scan.raised
                   THEN Resp("get_next_estructura_id", u, 500, <<>>, tipo)
                   ELSE Resp("get_next_estructura_id", u, 200,
                             FormatId(prefix, scan.max_num), tipo)
        /\ UNCHANGED <<proyecto, seq_proyecto, estructura, tuberia, tx>>

\* POST /estructuras/: data = [id, tipo, geometria, cota_estructura,
\* id_proyecto].  id is the primary key: a second row with it is refused by
\* the INSERT (IntegrityError).
CrearEstructura(u, data) ==
    /\ IF ~ProyectoDeUsuario(data.id_proyecto, u)
       THEN /\ resp' = Resp("crear_estructura", u, 404, <<>>, data.id)
            /\ UNCHANGED estructura
       ELSE IF data.id \in DOMAIN estructura
       THEN /\ resp' = Resp("crear_estructura", u, 500, <<>>, data.id)
            /\ UNCHANGED estructura
       ELSE /\ estructura' = estructura @@
                 (data.id :> EstructuraRow(data.tipo, data.geometria,
                                           data.cota_estructura, data.id_proyecto))
            /\ resp' = Resp("crear_estructura", u, 200, <<>>, data.id)
    /\ UNCHANGED <<proyecto, seq_proyecto, tuberia, tx>>

\* DELETE /estructuras/{estructura_id}: the row is looked up by id alone
EliminarEstructura(u, estructura_id) ==
    /\ IF estructura_id \notin DOMAIN estructura
       THEN /\ resp' = Resp("eliminar_estructura", u, 404, <<>>, estructura_id)
            /\ UNCHANGED estructura
       ELSE IF OrmDeleteRaises({estructura_id})
       THEN /\ resp' = Resp("eliminar_estructura", u, 500, <<>>, estructura_id)
            /\ UNCHANGED estructura
       ELSE /\ estructura' = Without(estructura, {estructura_id})
            /\ resp' = Resp("eliminar_estructura", u, 200, <<>>, estructura_id)
    /\ UNCHANGED <<proyecto, seq_proyecto, tuberia, tx>>

\* the field assignments of actualizar_estructura_hidraulica before the
\* project check: a field of the request that is not None replaces the row's
EstructuraAsignada(row, data) ==
    [row EXCEPT
        !.tipo = IF data.tipo # NullText THEN data.tipo ELSE @,
        !.geometria = IF data.geometria # NullText THEN data.geometria ELSE @,
        !.cota_estructura =
            IF data.cota_estructura # None THEN data.cota_estructura ELSE @]

\* an update that would also re-derive the geometry and the cota_clave of the
\* stored pipes from the structures as updated
ActualizarEstructuraRederiva(u, estructura_id, data) ==
    LET nueva == [estructura EXCEPT ![estructura_id] =
                    [EstructuraAsignada(@, data) EXCEPT
                        !.id_proyecto = IF data.id_proyecto # None
                                        THEN data.id_proyecto[1] ELSE @]]
        rederivada(row) ==
            LET p1 == GetPointFromStructure(nueva, row.id_estructura_inicio)
                p2 == GetPointFromStructure(nueva, row.id_estructura_destino)
            IN  [row EXCEPT
                    !.geometria = IF p1.ok /\ p2.ok
                                  THEN FormatLineString(p1.x, p1.y, p2.x, p2.y)
                                  ELSE @,
                    !.cota_clave_inicio =
                        CotaClaveCalc(@, nueva[row.id_estructura_inicio].cota_estructura,
                                      row.profundidad_clave_inicio),
                    !.cota_clave_destino =
                        CotaClaveCalc(@, nueva[row.id_estructura_destino].cota_estructura,
                                      row.profundidad_clave_destino)]
    IN  /\ IF \/ ~EstructuraDeUsuario(estructura_id, u)
              \/ data.id_proyecto # None /\ ~ProyectoDeUsuario(data.id_proyecto[1], u)
           THEN /\ resp' = Resp("actualizar_estructura", u, 404, <<>>,
                                 <<estructura_id, data>>)
                /\ UNCHANGED <<estructura, tuberia>>
           ELSE /\ estructura' = nueva
                /\ tuberia' = [t \in DOMAIN tuberia |-> rederivada(tuberia[t])]
                /\ resp' = Resp("actualizar_estructura", u, 200, <<>>,
                                 <<estructura_id, data>>)
        /\ UNCHANGED <<proyecto, seq_proyecto, tx>>


\* an update whose assignments reach the table before the project check: the
\* 404 of the destination project leaves them stored
ActualizarEstructuraFlushed(u, estructura_id, data) ==
    /\ IF ~EstructuraDeUsuario(estructura_id, u)
       THEN /\ resp' = Resp("actualizar_estructura", u, 404, <<>>,
                             <<estructura_id, data>>)
            /\ UNCHANGED estructura
       ELSE IF data.id_proyecto # None /\ ~ProyectoDeUsuario(data.id_proyecto[1], u)
       THEN /\ resp' = Resp("actualizar_estructura", u, 404, <<>>,
                             <<estructura_id, data>>)
            /\ estructura' =
                 [estructura EXCEPT ![estructura_id] = EstructuraAsignada(@, data)]
       ELSE /\ estructura' =
                 [estructura EXCEPT ![estructura_id] =
                    [EstructuraAsignada(@, data) EXCEPT
                        !.id_proyecto = IF data.id_proyecto # None
                                        THEN data.id_proyecto[1] ELSE @]]
            /\ resp' = Resp("actualizar_estructura", u, 200, <<>>,
                             <<estructura_id, data>>)
    /\ UNCHANGED <<proyecto, seq_proyecto, tuberia, tx>>

\* PUT /estructuras/{estructura_id}: data = [tipo, geometria, cota_estructura,
\* id_proyecto], each None when absent.  The 404 of the destination project is
\* raised before db.commit(): the session is not autoflushed (database.py 17)
\* and get_db closes it (main.py 34-39), so the assignments made so far are
\* dropped.
ActualizarEstructura(u, estructura_id, data) ==
    /\ IF ~EstructuraDeUsuario(estructura_id, u)
       THEN /\ resp' = Resp("actualizar_estructura", u, 404, <<>>,
                         <<estructura_id, data>>)
            /\ UNCHANGED estructura
       ELSE IF data.id_proyecto # None /\ ~ProyectoDeUsuario(data.id_proyecto[1], u)
       THEN /\ resp' = Resp("actualizar_estructura", u, 404, <<>>,
                         <<estructura_id, data>>)
            /\ UNCHANGED estructura
       ELSE /\ estructura' =
                 [estructura EXCEPT ![estructura_id] =
                    [EstructuraAsignada(@, data) EXCEPT
                        !.id_proyecto = IF data.id_proyecto # None
                                        THEN data.id_proyecto[1] ELSE @]]
            /\ resp' = Resp("actualizar_estructura", u, 200, <<>>,
                         <<estructura_id, data>>)
    /\ UNCHANGED <<proyecto, seq_proyecto, tuberia, tx>>

-----------------------------------------------------------------------------
(* Pipes *)

\* the create-pipe requests past their reads and before their commit
EnVuelo == {w \in Workers : tx[w].pc # "idle"}

\* a scan that would also see the ids reserved by the requests in flight
TuberiaIdRowsReserved == DOMAIN tuberia \cup {tx[w].new_pipe_id : w \in EnVuelo}

\* rows = db.query(models.Tuberia.id).all(): the committed pipe ids
TuberiaIdRows == DOMAIN tuberia

\* a next-id request that would reserve the identifier it returns, by storing
\* a placeholder row under it
GetNextTuberiaIdReserva(u) ==
    LET scan == ScanTuberiaRows(TuberiaIdRows, S_tub, ScanStart)
        reserva == [geometria |-> NullText,
                    id_estructura_inicio |-> <<"p", "z", "0", "0", "0", "1">>,
                    id_estructura_destino |-> <<"s", "m", "0", "0", "0", "1">>,
                    cota_clave_inicio |-> None, cota_clave_destino |-> None,
                    profundidad_clave_inicio |-> None,
                    profundidad_clave_destino |-> None,
                    diametro |-> None, creador |-> u]
    IN  /\ IF scan.raised
           THEN /\ resp' = Resp("get_next_tuberia_id", u, 500, <<>>, <<>>)
                /\ UNCHANGED tuberia
           ELSE /\ resp' = Resp("get_next_tuberia_id", u, 200,
                                 FormatId(S_tub, scan.max_num), <<>>)
                /\ tuberia' = tuberia @@ (FormatId(S_tub, scan.max_num) :> reserva)
        /\ UNCHANGED <<proyecto, seq_proyecto, estructura, tx>>

\* GET /tuberias/next-id
GetNextTuberiaId(u) ==
    LET scan == ScanTuberiaRows(TuberiaIdRows, S_tub, ScanStart)
    IN  /\ resp' = IF scan.raised
                   THEN Resp("get_next_tuberia_id", u, 500, <<>>, <<>>)
                   ELSE Resp("get_next_tuberia_id", u, 200,
                             FormatId(S_tub, scan.max_num), <<>>)
        /\ UNCHANGED <<proyecto, seq_proyecto, estructura, tuberia, tx>>

\* models.Tuberia(id=new_pipe_id, ..., geometria=geom, ...): the row that
\* crear_tuberia adds.  creador is not a column: it records the user of the
\* request, for the statements about ownership.
TuberiaNueva(t) ==
    [geometria |-> t.geom,
     id_estructura_inicio |-> t.data.id_estructura_inicio,
     id_estructura_destino |-> t.data.id_estructura_destino,
     cota_clave_inicio |-> t.cota_clave_inicio_calc,
     cota_clave_destino |-> t.cota_clave_destino_calc,
     profundidad_clave_inicio |-> t.data.profundidad_clave_inicio,
     profundidad_clave_destino |-> t.data.profundidad_clave_destino,
     diametro |-> t.data.diametro,
     creador |-> t.user]

\* POST /tuberias/, steps 1 to 5: every read of the request and what it
\* computes from them.  Nothing is written; a failed check ends the request.
\* data = [id, id_estructura_inicio, id_estructura_destino, cota_clave_inicio,
\* cota_clave_destino, profundidad_clave_inicio, profundidad_clave_destino,
\* diametro].
CrearTuberiaLeer(w, u, data, limit) ==
    LET scan == ScanTuberiaRows(TuberiaIdRows, S_tub, ScanStart)
        new_pipe_id == FormatId(S_tub, scan.max_num)
        ini == data.id_estructura_inicio
        dst == data.id_estructura_destino
        proyectos_ids_usuario == ProyectosIdsUsuario(u)
        p1 == GetPointFromStructure(estructura, ini)
        p2 == GetPointFromStructure(estructura, dst)
        fin(status) == /\ resp' = Resp("crear_tuberia", u, status, <<>>, <<ini, dst>>)
                       /\ UNCHANGED tx
    IN  /\ tx[w].pc = "idle"
        /\ Cardinality(DOMAIN tuberia) + Cardinality(EnVuelo) < limit
        /\ IF scan.raised THEN fin(500)
           ELSE IF ini \notin DOMAIN estructura \/ dst \notin DOMAIN estructura
           THEN fin(404)
           ELSE IF estructura[ini].id_proyecto \notin proyectos_ids_usuario
                   \/ estructura[dst].id_proyecto \notin proyectos_ids_usuario
           THEN fin(403)
           ELSE IF ~p1.ok \/ ~p2.ok THEN fin(400)
           ELSE /\ tx' = [tx EXCEPT ![w] =
                    [pc |-> "commit", user |-> u, data |-> data,
                     max_num |-> scan.max_num,
                     new_pipe_id |-> new_pipe_id,
                     geom |-> FormatLineString(p1.x, p1.y, p2.x, p2.y),
                     cota_clave_inicio_calc |->
                        CotaClaveCalc(data.cota_clave_inicio,
                                      estructura[ini].cota_estructura,
                                      data.profundidad_clave_inicio),
                     cota_clave_destino_calc |->
                        CotaClaveCalc(data.cota_clave_destino,
                                      estructura[dst].cota_estructura,
                                      data.profundidad_clave_destino)]]
                /\ UNCHANGED resp
        /\ UNCHANGED <<proyecto, seq_proyecto, estructura, tuberia>>

\* a commit on a table without the primary key and the foreign keys: the
\* INSERT lands whatever is stored
CrearTuberiaCommitSinRestricciones(w) ==
    LET t == tx[w]
    IN  /\ t.pc = "commit"
        /\ tuberia' = [k \in DOMAIN tuberia \cup {t.new_pipe_id} |->
                          IF k = t.new_pipe_id THEN TuberiaNueva(t)
                          ELSE tuberia[k]]
        /\ resp' = Resp("crear_tuberia", t.user, 200, t.new_pipe_id,
                        <<t.data.id_estructura_inicio,
                          t.data.id_estructura_destino>>)
        /\ tx' = [tx EXCEPT ![w] = TxIdle]
        /\ UNCHANGED <<proyecto, seq_proyecto, estructura>>

\* POST /tuberias/, step 6: db.add(tuberia); db.commit().  The INSERT is
\* refused (IntegrityError) when the primary key is taken (models.py 148) or
\* a referenced structure is gone (models.py 176-186).
CrearTuberiaCommit(w) ==
    LET t == tx[w]
    IN  /\ t.pc = "commit"
        /\ IF \/ t.new_pipe_id \in DOMAIN tuberia
              \/ t.data.id_estructura_inicio \notin DOMAIN estructura
              \/ t.data.id_estructura_destino \notin DOMAIN estructura
           THEN /\ resp' = Resp("crear_tuberia", t.user, 500, <<>>,
                                 <<t.data.id_estructura_inicio,
                                   t.data.id_estructura_destino>>)
                /\ UNCHANGED tuberia
           ELSE /\ tuberia' = tuberia @@ (t.new_pipe_id :> TuberiaNueva(t))
                /\ resp' = Resp("crear_tuberia", t.user, 200, t.new_pipe_id,
                                 <<t.data.id_estructura_inicio,
                                   t.data.id_estructura_destino>>)
        /\ tx' = [tx EXCEPT ![w] = TxIdle]
        /\ UNCHANGED <<proyecto, seq_proyecto, estructura>>

\* assignments that would also take the identity and the geometry of the body
TuberiaAsignadaTodo(row, data) ==
    [row EXCEPT
        !.diametro = IF data.diametro # None THEN data.diametro ELSE @,
        !.geometria = IF "geometria" \in DOMAIN data THEN data.geometria ELSE @,
        !.id_estructura_inicio =
            IF "id_estructura_inicio" \in DOMAIN data
            THEN data.id_estructura_inicio ELSE @]

\* the field assignments of actualizar_tuberia: a field of PipeUpdate that is
\* not None replaces the row's; the body's other keys are not read
TuberiaAsignada(row, data) ==
    [row EXCEPT
        !.diametro = IF data.diametro # None THEN data.diametro ELSE @,
        !.cota_clave_inicio =
            IF data.cota_clave_inicio # None THEN data.cota_clave_inicio ELSE @,
        !.cota_clave_destino =
            IF data.cota_clave_destino # None THEN data.cota_clave_destino ELSE @,
        !.profundidad_clave_inicio =
            IF data.profundidad_clave_inicio # None
            THEN data.profundidad_clave_inicio ELSE @,
        !.profundidad_clave_destino =
            IF data.profundidad_clave_destino # None
            THEN data.profundidad_clave_destino ELSE @]

\* PUT /tuberias/{tuberia_id}
ActualizarTuberia(u, tuberia_id, data) ==
    /\ IF ~TuberiaDeUsuario(tuberia_id, u)
       THEN /\ resp' = Resp("actualizar_tuberia", u, 404, <<>>, <<tuberia_id, data>>)
            /\ UNCHANGED tuberia
       ELSE /\ tuberia' = [tuberia EXCEPT ![tuberia_id] = TuberiaAsignada(@, data)]
            /\ resp' = Resp("actualizar_tuberia", u, 200, <<>>, <<tuberia_id, data>>)
    /\ UNCHANGED <<proyecto, seq_proyecto, estructura, tx>>

\* DELETE /tuberias/{tuberia_id}
EliminarTuberia(u, tuberia_id) ==
    /\ IF ~TuberiaDeUsuario(tuberia_id, u)
       THEN /\ resp' = Resp("eliminar_tuberia", u, 404, <<>>, tuberia_id)
            /\ UNCHANGED tuberia
       ELSE /\ tuberia' = Without(tuberia, {tuberia_id})
            /\ resp' = Resp("eliminar_tuberia", u, 200, <<>>, tuberia_id)
    /\ UNCHANGED <<proyecto, seq_proyecto, estructura, tx>>

-----------------------------------------------------------------------------
(* The map payload *)

\* the rows of the first query of get_project_map_data: the structures of
\* the project whose geometria IS NOT NULL
EstructurasRows(pid) ==
    {e \in DOMAIN estructura : /\ estructura[e].id_proyecto = pid
                               /\ estructura[e].geometria # NullText}

\* the row with lat and lon transposed
EstructuraMapRowTransposed(e) ==
    [id |-> e, tipo |-> estructura[e].tipo,
     lat |-> ParsePointWkt(estructura[e].geometria).x,
     lon |-> ParsePointWkt(estructura[e].geometria).y]


\* SELECT id, tipo, ST_Y(geometria) AS lat, ST_X(geometria) AS lon: the
\* coordinates of the POINT that the stored text denotes
EstructuraMapRow(e) ==
    [id |-> e, tipo |-> estructura[e].tipo,
     lat |-> ParsePointWkt(estructura[e].geometria).y,
     lon |-> ParsePointWkt(estructura[e].geometria).x]

\* the rows of the second query with the start structure replaced by the end
PipesRowsByDestino(pid) ==
    {t \in DOMAIN tuberia :
        /\ tuberia[t].id_estructura_destino \in DOMAIN estructura
        /\ estructura[tuberia[t].id_estructura_destino].id_proyecto = pid
        /\ tuberia[t].geometria # NullText}

\* the rows of the second query: tuberia t JOIN estructura_hidraulica e1 ON
\* t.id_estructura_inicio = e1.id WHERE e1.id_proyecto = :pid AND
\* t.geometria IS NOT NULL
PipesRows(pid) ==
    {t \in DOMAIN tuberia :
        /\ tuberia[t].id_estructura_inicio \in DOMAIN estructura
        /\ estructura[tuberia[t].id_estructura_inicio].id_proyecto = pid
        /\ tuberia[t].geometria # NullText}

\* one entry of pipes: coords = _parse_linestring_wkt(row["wkt"])
PipeMapRow(t) ==
    [id |-> t,
     id_estructura_inicio |-> tuberia[t].id_estructura_inicio,
     id_estructura_destino |-> tuberia[t].id_estructura_destino,
     coords |-> ParseLineStringWkt(tuberia[t].geometria).coords]

\* GET /proyectos/{proyecto_id}/map-data.  ST_Y / ST_X fail on a text that is
\* no POINT, and a ValueError of _parse_linestring_wkt is not caught: both end
\* the request with 500.  A pipe whose coords are empty is skipped.
GetProjectMapData(u, proyecto_id) ==
    LET estructuras_rows == EstructurasRows(proyecto_id)
        pipes_rows == PipesRows(proyecto_id)
        fin(status, body) ==
            resp' = Resp("get_project_map_data", u, status, body, proyecto_id)
    IN  /\ IF ~ProyectoDeUsuario(proyecto_id, u) THEN fin(404, <<>>)
           ELSE IF \E e \in estructuras_rows :
                      ~ParsePointWkt(estructura[e].geometria).ok
           THEN fin(500, <<>>)
           ELSE IF \E t \in pipes_rows :
                      ParseLineStringWkt(tuberia[t].geometria).raised
           THEN fin(500, <<>>)
           ELSE fin(200,
                    [structures |-> {EstructuraMapRow(e) : e \in estructuras_rows},
                     pipes |-> {PipeMapRow(t) :
                                  t \in {r \in pipes_rows :
                                           PipeMapRow(r).coords # <<>>}}])
        /\ UNCHANGED <<proyecto, seq_proyecto, estructura, tuberia, tx>>


-----------------------------------------------------------------------------
(* The requests of the model *)

E_pz0001 == <<"p", "z", "0", "0", "0", "1">>
E_sm0001 == <<"s", "m", "0", "0", "0", "1">>

\* "POINT(1 2)"
G_1_2 == <<"P", "O", "I", "N", "T", "(", "1", " ", "2", ")">>
\* " point(-3.5,4.25) "
G_m35_425 ==
    <<" ", "p", "o", "i", "n", "t", "(", "-", "3", ".", "5", ",",
      "4", ".", "2", "5", ")", " ">>
\* "POINT(7)"
G_7 == <<"P", "O", "I", "N", "T", "(", "7", ")">>

EstIds == {E_pz0001, E_sm0001}

ProyectoIds == 1..MaxProyectos

EstructuraCreate(id, tipo, geometria, cota_estructura, id_proyecto) ==
    [id |-> id, tipo |-> tipo, geometria |-> geometria,
     cota_estructura |-> cota_estructura, id_proyecto |-> id_proyecto]

EstructuraUpdate(tipo, geometria, cota_estructura, id_proyecto) ==
    [tipo |-> tipo, geometria |-> geometria,
     cota_estructura |-> cota_estructura, id_proyecto |-> id_proyecto]

PipeCreate(id, ini, dst) ==
    [id |-> id, id_estructura_inicio |-> ini, id_estructura_destino |-> dst,
     cota_clave_inicio |-> None, cota_clave_destino |-> None,
     profundidad_clave_inicio |-> None, profundidad_clave_destino |-> None,
     diametro |-> None]

PipeUpdate(diametro) ==
    [diametro |-> diametro,
     cota_clave_inicio |-> None, cota_clave_destino |-> None,
     profundidad_clave_inicio |-> None, profundidad_clave_destino |-> None]

\* "tub0001", "tub0002", ...: the ids a request may name
TubIds == {FormatId(S_tub, n) : n \in 0..MaxTuberias}

-----------------------------------------------------------------------------
(* The service from an empty database, requests handled concurrently:      *)
(* two users, two workers, structures with a point, pipes from pz0001 to   *)
(* sm0001                                                                   *)

EstructuraCreates ==
    {EstructuraCreate(id, S_pozo, G_1_2, None, p) : id \in EstIds, p \in ProyectoIds}

EstructuraUpdates ==
    {EstructuraUpdate(NullText, NullText, None, <<p>>) : p \in ProyectoIds}

PipeCreates == {PipeCreate(<<"x">>, E_pz0001, E_sm0001)}

Init ==
    /\ proyecto = <<>>
    /\ seq_proyecto = 0
    /\ estructura = <<>>
    /\ tuberia = <<>>
    /\ tx = [w \in Workers |-> TxIdle]
    /\ resp = RespNone

Next ==
    \/ \E u \in Usuarios : CrearProyecto(u)
    \/ \E u \in Usuarios, p \in ProyectoIds : EliminarProyecto(u, p)
    \/ \E u \in Usuarios, d \in EstructuraCreates : CrearEstructura(u, d)
    \/ \E u \in Usuarios, e \in EstIds : EliminarEstructura(u, e)
    \/ \E u \in Usuarios, e \in EstIds, d \in EstructuraUpdates :
          ActualizarEstructura(u, e, d)
    \/ \E w \in Workers, u \in Usuarios, d \in PipeCreates :
          CrearTuberiaLeer(w, u, d, MaxTuberias)
    \/ \E w \in Workers : CrearTuberiaCommit(w)
    \/ \E u \in Usuarios, t \in TubIds : EliminarTuberia(u, t)

Spec == Init /\ [][Next]_vars

-----------------------------------------------------------------------------
(* Concurrent pipe creation: user 1 owns project 1 with pz0001 and sm0001, *)
(* both with a point; the two workers create and delete pipes              *)

EstructurasConPunto ==
    (E_pz0001 :> EstructuraRow(S_pozo, G_1_2, None, 1))
    @@ (E_sm0001 :> EstructuraRow(S_sumidero, G_m35_425, None, 1))

InitConc ==
    /\ proyecto = (1 :> [id_usuario |-> 1])
    /\ seq_proyecto = 1
    /\ estructura = EstructurasConPunto
    /\ tuberia = <<>>
    /\ tx = [w \in Workers |-> TxIdle]
    /\ resp = RespNone

NextConc ==
    \/ \E w \in Workers, u \in Usuarios, d \in PipeCreates :
          CrearTuberiaLeer(w, u, d, MaxTuberias)
    \/ \E w \in Workers : CrearTuberiaCommit(w)
    \/ \E u \in Usuarios, t \in TubIds : EliminarTuberia(u, t)
    \/ \E u \in Usuarios : GetNextTuberiaId(u)

SpecConc == InitConc /\ [][NextConc]_vars

-----------------------------------------------------------------------------
(* Pipe geometry: user 1 owns project 1; structures come and go with no    *)
(* geometry, a point or a malformed POINT, and move; one worker creates    *)
(* pipes from pz0001 to sm0001                                             *)

EstructuraCreatesGeo ==
    {EstructuraCreate(E_pz0001, S_pozo, g, None, 1) : g \in {NullText, G_1_2}}
    \cup {EstructuraCreate(E_sm0001, S_sumidero, g, None, 1) : g \in {G_7, G_m35_425}}

EstructuraUpdatesGeo == {EstructuraUpdate(NullText, G_1_2, None, None)}

InitGeo ==
    /\ proyecto = (1 :> [id_usuario |-> 1])
    /\ seq_proyecto = 1
    /\ estructura = <<>>
    /\ tuberia = <<>>
    /\ tx = [w \in Workers |-> TxIdle]
    /\ resp = RespNone

NextGeo ==
    \/ \E d \in EstructuraCreatesGeo : CrearEstructura(1, d)
    \/ \E e \in EstIds : EliminarEstructura(1, e)
    \/ \E e \in EstIds, d \in EstructuraUpdatesGeo : ActualizarEstructura(1, e, d)
    \/ \E u \in Usuarios, d \in PipeCreates : CrearTuberiaLeer(1, u, d, MaxTuberias)
    \/ CrearTuberiaCommit(1)
    \/ \E t \in TubIds : EliminarTuberia(1, t)

SpecGeo == InitGeo /\ [][NextGeo]_vars

-----------------------------------------------------------------------------
(* Identifier allocation over any stored identifiers: the database holds   *)
(* up to MaxIds structures or up to MaxIds pipes with identifiers of any   *)
(* shape (each scan reads one table), and the requests are handled one at  *)
(* a time                                                                  *)

A_1 == <<"a", "1">>
A_2 == <<"a", "2">>

\* "pz0001", "PZ0003", "pzXX", "pz", "PZ-001", "sm0002", "pz9999"
EstIdUniverse ==
    {E_pz0001,
     <<"P", "Z", "0", "0", "0", "3">>,
     <<"p", "z", "X", "X">>,
     S_pz,
     <<"P", "Z", "-", "0", "0", "1">>,
     <<"s", "m", "0", "0", "0", "2">>,
     <<"p", "z", "9", "9", "9", "9">>}

\* "tub0001", "TUB0003", "tubXX", "tub", "tub-5", "tub9999", "", "pz0007"
TubIdUniverse ==
    {<<"t", "u", "b", "0", "0", "0", "1">>,
     <<"T", "U", "B", "0", "0", "0", "3">>,
     <<"t", "u", "b", "X", "X">>,
     S_tub,
     <<"t", "u", "b", "-", "5">>,
     <<"t", "u", "b", "9", "9", "9", "9">>,
     <<>>,
     <<"p", "z", "0", "0", "0", "7">>}

\* "pozo", " Pozo ", "SUMIDERO", "otro", ""
Tipos ==
    {S_pozo,
     <<" ", "P", "o", "z", "o", " ">>,
     <<"S", "U", "M", "I", "D", "E", "R", "O">>,
     <<"o", "t", "r", "o">>,
     <<>>}

PipeCreatesAlloc == {PipeCreate(<<"t", "u", "b", "0", "0", "0", "9">>, A_1, A_2)}

TuberiaAlmacenada ==
    [geometria |-> FormatLineString(100, 200, 100, 200),
     id_estructura_inicio |-> A_1, id_estructura_destino |-> A_2,
     cota_clave_inicio |-> None, cota_clave_destino |-> None,
     profundidad_clave_inicio |-> None, profundidad_clave_destino |-> None,
     diametro |-> None, creador |-> 1]

InitAlloc ==
    /\ proyecto = (1 :> [id_usuario |-> 1])
    /\ seq_proyecto = 1
    /\ \E S \in SUBSET EstIdUniverse, T \in SUBSET TubIdUniverse :
          /\ Cardinality(S) <= MaxIds
          /\ Cardinality(T) <= MaxIds
          /\ S = {} \/ T = {}
          /\ estructura =
                [i \in S \cup {A_1, A_2} |-> EstructuraRow(S_pozo, G_1_2, None, 1)]
          /\ tuberia = [i \in T |-> TuberiaAlmacenada]
    /\ tx = [w \in Workers |-> TxIdle]
    /\ resp = RespNone

NextAlloc ==
    \/ \E tipo \in Tipos : GetNextEstructuraId(1, tipo)
    \/ GetNextTuberiaId(1)
    \/ \E d \in PipeCreatesAlloc : CrearTuberiaLeer(1, 1, d, MaxIds + 1)
    \/ CrearTuberiaCommit(1)

SpecAlloc == InitAlloc /\ [][NextAlloc]_vars

-----------------------------------------------------------------------------
(* SpecCota: pipe creation over structures with and without an elevation,  *)
(* by requests with and without cota_clave and profundidad_clave.          *)

\* pipes that may be stored at once in SpecCota and in SpecUpd
MaxTuberiasCota == 1

\* 12.5, 9.0: the elevations a structure may carry
CotasEstructura == {None, <<1250>>}
CotasEstructuraDestino == {None, <<900>>}
\* 5.0: the cota_clave a request may carry
CotasClave == {None, <<500>>}
\* 0.0, 1.5: the profundidad_clave a request may carry
ProfundidadesClave == {None, <<0>>, <<150>>}

PipeCreatesCota ==
    {[PipeCreate(<<"x">>, E_pz0001, E_sm0001) EXCEPT
         !.cota_clave_inicio = ci, !.profundidad_clave_inicio = pi,
         !.cota_clave_destino = cd, !.profundidad_clave_destino = pd] :
       ci \in CotasClave, pi \in ProfundidadesClave,
       cd \in CotasClave, pd \in ProfundidadesClave}

InitCota ==
    /\ proyecto = (1 :> [id_usuario |-> 1])
    /\ seq_proyecto = 1
    /\ \E c1 \in CotasEstructura, c2 \in CotasEstructuraDestino :
          estructura = (E_pz0001 :> EstructuraRow(S_pozo, G_1_2, c1, 1))
                       @@ (E_sm0001 :> EstructuraRow(S_sumidero, G_m35_425, c2, 1))
    /\ tuberia = <<>>
    /\ tx = [w \in Workers |-> TxIdle]
    /\ resp = RespNone

NextCota ==
    \/ \E d \in PipeCreatesCota : CrearTuberiaLeer(1, 1, d, MaxTuberiasCota)
    \/ CrearTuberiaCommit(1)
    \/ \E t \in TubIds : EliminarTuberia(1, t)

SpecCota == InitCota /\ [][NextCota]_vars

-----------------------------------------------------------------------------
(* SpecUpd: pipes are created, updated and deleted.  The bodies of the      *)
(* updates carry, besides fields of PipeUpdate, keys that the schema does  *)
(* not declare: id, geometria, id_estructura_inicio, id_estructura_destino. *)

\* "LINESTRING(0.0 0.0, 9.0 9.0)"
G_line_0_9 ==
    <<"L", "I", "N", "E", "S", "T", "R", "I", "N", "G", "(", "0", ".", "0", " ",
      "0", ".", "0", ",", " ", "9", ".", "0", " ", "9", ".", "0", ")">>

PipeUpdateBodies ==
    {[diametro |-> d, cota_clave_inicio |-> c, cota_clave_destino |-> None,
      profundidad_clave_inicio |-> None, profundidad_clave_destino |-> p,
      id |-> FormatId(S_tub, 8), geometria |-> G_line_0_9,
      id_estructura_inicio |-> E_sm0001, id_estructura_destino |-> E_pz0001] :
       d \in {None, <<800>>}, c \in {None, <<700>>}, p \in {None, <<200>>}}

NextUpd ==
    \/ \E d \in PipeCreates : CrearTuberiaLeer(1, 1, d, MaxTuberiasCota)
    \/ CrearTuberiaCommit(1)
    \/ \E u \in Usuarios, t \in TubIds, d \in PipeUpdateBodies :
          ActualizarTuberia(u, t, d)
    \/ \E t \in TubIds : EliminarTuberia(1, t)

SpecUpd == InitConc /\ [][NextUpd]_vars

-----------------------------------------------------------------------------
(* SpecWkt: the two WKT parsers applied to texts put together from a tag,  *)
(* groups of tokens, separators and a closing part.                        *)

\* "1", "2", "-3.5", "4.25", "a", "b"
K_1 == <<"1">>
K_2 == <<"2">>
K_m35 == <<"-", "3", ".", "5">>
K_425 == <<"4", ".", "2", "5">>
K_a == <<"a">>
K_b == <<"b">>

RECURSIVE Join(_, _)
Join(pieces, sep) ==
    IF pieces = <<>> THEN <<>>
    ELSE IF Len(pieces) = 1 THEN pieces[1]
    ELSE pieces[1] \o sep \o Join(Tail(pieces), sep)

\* the text of the input c = [kind, lead, tag, groups, tsep, gsep, close]:
\* the tokens of a group joined by tsep, the groups by gsep
WktOf(c) ==
    c.lead \o c.tag
    \o Join([g \in DOMAIN c.groups |-> Join(c.groups[g], c.tsep)], c.gsep)
    \o c.close

SeqsUpTo(S, n) == UNION {[1..k -> S] : k \in 0..n}

Leads == {<<>>, <<" ">>}
Closings == {<<")">>, <<>>, <<")", " ">>}
PointTags ==
    {<<"P", "O", "I", "N", "T", "(">>, <<"p", "o", "i", "n", "t", "(">>,
     <<"P", "O", "I", "N", "T">>, <<"L", "I", "N", "E", "(">>}
LineTags ==
    {<<"L", "I", "N", "E", "S", "T", "R", "I", "N", "G", "(">>,
     <<"L", "i", "n", "e", "S", "t", "r", "i", "n", "g", "(">>,
     <<"L", "I", "N", "E", "S", "T", "R", "I", "N", "G">>,
     <<"P", "O", "I", "N", "T", "(">>}

\* the longest group of tokens and the longest list of groups of an input
MaxTokens == 3
MaxGroups == 2

PointInputs ==
    {[kind |-> "point", lead |-> l, tag |-> t, groups |-> <<g>>,
      tsep |-> ts, gsep |-> <<>>, close |-> c] :
       l \in Leads, t \in PointTags,
       g \in SeqsUpTo({K_1, K_m35, K_425, K_a}, MaxTokens),
       ts \in {<<" ">>, <<",">>, <<",", " ">>}, c \in Closings}

LineGroups ==
    {<<K_1, K_2>>, <<K_m35, K_425>>, <<K_a, K_b>>, <<K_1, K_a>>,
     <<K_2>>, <<K_1, K_2, K_m35>>, <<>>}

LineInputs ==
    {[kind |-> "linestring", lead |-> l, tag |-> t, groups |-> gs,
      tsep |-> <<" ">>, gsep |-> s, close |-> c] :
       l \in Leads, t \in LineTags, gs \in SeqsUpTo(LineGroups, MaxGroups),
       s \in {<<",">>, <<",", " ">>}, c \in Closings \ {<<")", " ">>}}

\* the call _parse_point_wkt(wkt): the pair returned, or the ValueError raised
ParsePointCall ==
    /\ resp.op = "input" /\ resp.arg.kind = "point"
    /\ LET p == ParsePointWkt(WktOf(resp.arg))
       IN  resp' = Resp("parse_point", 0, 0,
                        IF p.ok THEN [raised |-> FALSE, value |-> <<p.x, p.y>>]
                        ELSE [raised |-> TRUE, value |-> <<>>],
                        resp.arg)
    /\ UNCHANGED <<proyecto, seq_proyecto, estructura, tuberia, tx>>

\* the call _parse_linestring_wkt(wkt): the list returned, or the ValueError
ParseLineStringCall ==
    /\ resp.op = "input" /\ resp.arg.kind = "linestring"
    /\ LET r == ParseLineStringWkt(WktOf(resp.arg))
       IN  resp' = Resp("parse_linestring", 0, 0,
                        [raised |-> r.raised, value |-> r.coords], resp.arg)
    /\ UNCHANGED <<proyecto, seq_proyecto, estructura, tuberia, tx>>

InitWkt ==
    /\ proyecto = <<>>
    /\ seq_proyecto = 0
    /\ estructura = <<>>
    /\ tuberia = <<>>
    /\ tx = [w \in Workers |-> TxIdle]
    /\ \E c \in PointInputs \cup LineInputs : resp = Resp("input", 0, 0, <<>>, c)

NextWkt == ParsePointCall \/ ParseLineStringCall

SpecWkt == InitWkt /\ [][NextWkt]_vars

-----------------------------------------------------------------------------
(* SpecMap: the map payload of two projects of one user, over pipes created *)
(* by crear_tuberia and over a pipe row written by another client of the   *)
(* database, whose geometry is not a two-vertex LINESTRING.                *)

E_es0001 == <<"e", "s", "0", "0", "0", "1">>

\* "POINT(-3.5 4.25)"
G_m35_425_blank ==
    <<"P", "O", "I", "N", "T", "(", "-", "3", ".", "5", " ", "4", ".", "2", "5", ")">>
\* "POINT(0.05 -12.1)"
G_005_m121 ==
    <<"P", "O", "I", "N", "T", "(", "0", ".", "0", "5", " ",
      "-", "1", "2", ".", "1", ")">>
\* "LINESTRING EMPTY"
G_line_empty ==
    <<"L", "I", "N", "E", "S", "T", "R", "I", "N", "G", " ", "E", "M", "P", "T", "Y">>
\* "LINESTRING(1 2,2 -3.5,4.25 1)"
G_line_3 ==
    <<"L", "I", "N", "E", "S", "T", "R", "I", "N", "G", "(", "1", " ", "2", ",",
      "2", " ", "-", "3", ".", "5", ",", "4", ".", "2", "5", " ", "1", ")">>
\* "LINESTRING(a b)"
G_line_ab ==
    <<"L", "I", "N", "E", "S", "T", "R", "I", "N", "G", "(", "a", " ", "b", ")">>

\* the pipe row already in the table, if any
TuberiasPrevias ==
    {<<>>} \cup
    {FormatId(S_tub, 0) :>
        [geometria |-> g, id_estructura_inicio |-> ab[1],
         id_estructura_destino |-> ab[2],
         cota_clave_inicio |-> None, cota_clave_destino |-> None,
         profundidad_clave_inicio |-> None, profundidad_clave_destino |-> None,
         diametro |-> None, creador |-> 1] :
       g \in {G_line_empty, G_line_3, G_line_ab},
       ab \in {<<E_pz0001, E_sm0001>>, <<E_sm0001, E_pz0001>>}}

PipeCreatesMap ==
    {PipeCreate(<<"x">>, E_pz0001, E_sm0001), PipeCreate(<<"x">>, E_sm0001, E_pz0001)}

\* PUT /estructuras/sm0001 that moves it to a project
EstructuraMovesMap ==
    {EstructuraUpdate(NullText, NullText, None, <<p>>) : p \in ProyectoIds}

\* PUT /estructuras/pz0001 that gives it another point
EstructuraGeomsMap == {EstructuraUpdate(NullText, G_005_m121, None, None)}

InitMap ==
    /\ proyecto = (1 :> [id_usuario |-> 1]) @@ (2 :> [id_usuario |-> 1])
    /\ seq_proyecto = 2
    /\ \E g \in {NullText, G_7} :
          estructura = (E_pz0001 :> EstructuraRow(S_pozo, G_1_2, None, 1))
                       @@ (E_sm0001 :> EstructuraRow(S_sumidero, G_m35_425_blank, None, 2))
                       @@ (E_es0001 :> EstructuraRow(S_sumidero, g, None, 1))
    /\ tuberia \in TuberiasPrevias
    /\ tx = [w \in Workers |-> TxIdle]
    /\ resp = RespNone

NextMap ==
    \/ \E d \in PipeCreatesMap : CrearTuberiaLeer(1, 1, d, MaxTuberiasCota)
    \/ CrearTuberiaCommit(1)
    \/ \E t \in TubIds : EliminarTuberia(1, t)
    \/ \E d \in EstructuraMovesMap : ActualizarEstructura(1, E_sm0001, d)
    \/ \E d \in EstructuraGeomsMap : ActualizarEstructura(1, E_pz0001, d)
    \/ \E u \in Usuarios, p \in ProyectoIds : GetProjectMapData(u, p)

SpecMap == InitMap /\ [][NextMap]_vars

-----------------------------------------------------------------------------
(* SpecFk: one user's project with two structures; two requests create     *)
(* pipes concurrently while structures, pipes and the project are deleted  *)
(* and created again; structures are created in the first project.         *)

NextFk ==
    \/ CrearProyecto(1)
    \/ \E p \in ProyectoIds : EliminarProyecto(1, p)
    \/ \E d \in EstructuraCreates :
          d.id_proyecto = 1 /\ CrearEstructura(1, d)
    \/ \E e \in EstIds : EliminarEstructura(1, e)
    \/ \E w \in Workers, d \in PipeCreates :
          CrearTuberiaLeer(w, 1, d, MaxTuberias)
    \/ \E w \in Workers : CrearTuberiaCommit(w)
    \/ \E t \in TubIds : EliminarTuberia(1, t)

SpecFk == InitConc /\ [][NextFk]_vars


-----------------------------------------------------------------------------
(* SpecEst: the structures of user 1's project are updated by both users,  *)
(* with bodies that carry a type, a point, an elevation and a destination  *)
(* project: user 1's, user 2's, or one that does not exist.                *)

\* the destination projects a request may name: those of ProyectoIds and one
\* id beyond them, which no project has
ProyectosDestino == ProyectoIds \cup {MaxProyectos + 1}

EstructuraUpdatesEst ==
    {EstructuraUpdate(S_sumidero, G_005_m121, <<300>>, <<p>>) : p \in ProyectosDestino}
    \cup {EstructuraUpdate(NullText, NullText, None, <<p>>) : p \in ProyectosDestino}
    \cup {EstructuraUpdate(NullText, G_005_m121, None, None),
          EstructuraUpdate(S_pozo, G_1_2, <<1250>>, None)}

InitEst ==
    /\ proyecto = [p \in ProyectoIds |-> [id_usuario |-> IF p = 1 THEN 1 ELSE 2]]
    /\ seq_proyecto = MaxProyectos
    /\ estructura = (E_pz0001 :> EstructuraRow(S_pozo, G_1_2, <<1250>>, 1))
                    @@ (E_sm0001 :> EstructuraRow(S_sumidero, G_m35_425, <<900>>, 1))
    /\ tuberia = <<>>
    /\ tx = [w \in Workers |-> TxIdle]
    /\ resp = RespNone

NextEst ==
    \E u \in Usuarios, e \in EstIds, d \in EstructuraUpdatesEst :
        ActualizarEstructura(u, e, d)

SpecEst == InitEst /\ [][NextEst]_vars


-----------------------------------------------------------------------------
(* SpecMove: the two structures of a project are given another point or    *)
(* another elevation while pipes between them are created and deleted.     *)

\* PUT bodies: another point, another elevation (3.0), or both
EstructuraUpdatesMove ==
    {EstructuraUpdate(NullText, G_005_m121, None, None),
     EstructuraUpdate(NullText, NullText, <<300>>, None),
     EstructuraUpdate(NullText, G_005_m121, <<300>>, None)}

\* POST bodies without and with depths (1.5) at both ends
PipeCreatesMove ==
    {[PipeCreate(<<"x">>, E_pz0001, E_sm0001) EXCEPT
         !.profundidad_clave_inicio = pf, !.profundidad_clave_destino = pf] :
       pf \in {None, <<150>>}}

NextMove ==
    \/ \E e \in EstIds, d \in EstructuraUpdatesMove : ActualizarEstructura(1, e, d)
    \/ \E d \in PipeCreatesMove : CrearTuberiaLeer(1, 1, d, MaxTuberiasCota)
    \/ CrearTuberiaCommit(1)
    \/ \E t \in TubIds : EliminarTuberia(1, t)

SpecMove == InitCota /\ [][NextMove]_vars


-----------------------------------------------------------------------------
(* SpecNext: both next-id requests are asked, by either user, while two    *)
(* requests create pipes and the structures and pipes of user 1's project  *)
(* are deleted and created again.                                          *)

NextNext ==
    \/ \E u \in Usuarios : GetNextTuberiaId(u)
    \/ \E u \in Usuarios, tipo \in {S_pozo, S_sumidero} : GetNextEstructuraId(u, tipo)
    \/ \E w \in Workers, d \in PipeCreates : CrearTuberiaLeer(w, 1, d, MaxTuberias)
    \/ \E w \in Workers : CrearTuberiaCommit(w)
    \/ \E t \in TubIds : EliminarTuberia(1, t)
    \/ \E u \in Usuarios, d \in EstructuraCreates : CrearEstructura(u, d)
    \/ \E e \in EstIds : EliminarEstructura(1, e)

SpecNext == InitConc /\ [][NextNext]_vars


-----------------------------------------------------------------------------
(* Identifier allocation as the specification states it *)

\* the integers parsed from the remainders of the ids that start with the
\* prefix, whatever their case
ParsedNums(ids, prefix) ==
    {PyInt(SliceFrom(i, Len(prefix))).val :
        i \in {j \in ids : /\ StartsWith(Lower(j), prefix)
                           /\ PyInt(SliceFrom(j, Len(prefix))).ok}}

Greatest(nums) == CHOOSE m \in nums : \A n \in nums : n <= m

\* the greatest integer parsed, or 0 when there is none
GreatestParsedOrZero(ids, prefix) ==
    IF ParsedNums(ids, prefix) = {} THEN 0 ELSE Greatest(ParsedNums(ids, prefix))

\* the greatest non-negative integer parsed, or 0 when there is none
GreatestNonNegative(ids, prefix) == Greatest(ParsedNums(ids, prefix) \cup {0})

\* the prefix of a type: pz for a well, sm for a drain, es for any other
PrefixOfTipo(tipo) ==
    CASE Lower(Strip(tipo)) = S_pozo -> S_pz
      [] Lower(Strip(tipo)) = S_sumidero -> S_sm
      [] OTHER -> S_es

\* an id whose remainder after the prefix is no valid non-negative integer
Corrupt(id, prefix) ==
    LET num == PyInt(SliceFrom(id, Len(prefix)))
    IN  ~num.ok \/ num.val < 0

WellFormed(ids, prefix) ==
    {i \in ids : StartsWith(Lower(i), prefix) /\ ~Corrupt(i, prefix)}

\* a request in flight whose reads passed every check
Validated(w) == tx[w].pc = "commit"

\* the step in which worker w reads and passes every check
LeerOk(w) == tx[w].pc = "idle" /\ tx'[w].pc = "commit"

\* the step in which worker w's INSERT is committed
CommitOk(w) ==
    /\ tx[w].pc = "commit" /\ tx'[w].pc = "idle"
    /\ tx[w].new_pipe_id \notin DOMAIN tuberia
    /\ tx[w].new_pipe_id \in DOMAIN tuberia'

-----------------------------------------------------------------------------
(* C1 *)

\* C1: allocation is a read-then-write race.  A create-pipe request computes
\* its identifier from the stored pipe ids alone, 'tub' + pad4(maxNum + 1),
\* whatever another request in flight holds; so a request that scans while
\* another one, which observed the same maxNum, has not committed computes
\* the same identifier.
C1_ScanIgnoresRequestsInFlight ==
    [][\A w \in Workers :
          LeerOk(w) =>
            /\ tx'[w].max_num = GreatestNonNegative(DOMAIN tuberia, S_tub)
            /\ tx'[w].new_pipe_id = S_tub \o Pad4(tx'[w].max_num + 1)
            /\ \A v \in Workers \ {w} :
                  (Validated(v) /\ tx[v].max_num = tx'[w].max_num)
                  => tx'[w].new_pipe_id = tx[v].new_pipe_id]_vars

\* two requests in flight, both past every check, hold the same identifier,
\* which is not stored
C1_Witness ==
    /\ Validated(1) /\ Validated(2)
    /\ tx[1].new_pipe_id = tx[2].new_pipe_id
    /\ tx[1].new_pipe_id \notin DOMAIN tuberia

-----------------------------------------------------------------------------
(* C2 *)

\* C2: concurrent allocation is hardened: every create-pipe request that
\* passes its checks ends with its pipe persisted (a conflict on the
\* identifier is retried or cannot happen), so a finished create-pipe request
\* has failed only with one of the validation errors 400, 403 or 404.
C2_ValidatedRequestsPersist ==
    (resp.op = "crear_tuberia" /\ resp.status \notin {400, 403, 404})
    => (resp.status = 200 /\ resp.body \in DOMAIN tuberia)

-----------------------------------------------------------------------------
(* C3 *)

\* C3: without concurrency the allocated identifier is not stored yet: the id
\* returned by get_next_estructura_id is no id of a stored structure, the id
\* returned by get_next_tuberia_id is no id of a stored pipe, and the id that
\* crear_tuberia assigns is no id of a stored pipe, so its INSERT succeeds.
C3_CollisionFree ==
    /\ resp.op = "get_next_estructura_id"
       => (resp.status = 200 /\ resp.body \notin DOMAIN estructura)
    /\ resp.op = "get_next_tuberia_id"
       => (resp.status = 200 /\ resp.body \notin DOMAIN tuberia)
    /\ \A w \in Workers : Validated(w) => tx[w].new_pipe_id \notin DOMAIN tuberia
    /\ resp.op = "crear_tuberia" => (resp.status = 200 /\ resp.body \in DOMAIN tuberia)

\* a pipe was created next to stored pipes, one of them with an upper-case
\* prefix
C3_Witness ==
    /\ resp.op = "crear_tuberia" /\ resp.status = 200
    /\ resp.body = <<"t", "u", "b", "0", "0", "0", "4">>
    /\ <<"T", "U", "B", "0", "0", "0", "3">> \in DOMAIN tuberia
    /\ <<"t", "u", "b", "0", "0", "0", "1">> \in DOMAIN tuberia

-----------------------------------------------------------------------------
(* C4 *)

\* C4 as stated: the allocated identifier is prefix + pad4(maxNum + 1) with
\* maxNum the greatest integer parsed from the remainders of the stored ids
\* that start with the prefix, or 0 when none parses.
C4_GreatestParsed ==
    /\ resp.op = "get_next_estructura_id"
       => resp.body = PrefixOfTipo(resp.arg)
                      \o Pad4(GreatestParsedOrZero(DOMAIN estructura,
                                                   PrefixOfTipo(resp.arg)) + 1)
    /\ resp.op = "get_next_tuberia_id"
       => resp.body = S_tub \o Pad4(GreatestParsedOrZero(DOMAIN tuberia, S_tub) + 1)

\* C4 (amended): the allocated identifier is prefix + pad4(maxNum + 1) with
\* maxNum the greatest NON-NEGATIVE integer parsed from the remainders of the
\* stored ids that start with the prefix case-insensitively, or 0 when there
\* is none; the prefix is pz for tipo 'pozo', sm for 'sumidero' (compared
\* trimmed and lower-cased), es for any other tipo, and tub for pipes;
\* crear_tuberia stores exactly this identifier, whatever id the request
\* body carries.
C4_NextIdentifier ==
    [][/\ resp'.op = "get_next_estructura_id"
          => resp'.body = PrefixOfTipo(resp'.arg)
                          \o Pad4(GreatestNonNegative(DOMAIN estructura,
                                                      PrefixOfTipo(resp'.arg)) + 1)
       /\ resp'.op = "get_next_tuberia_id"
          => resp'.body = S_tub \o Pad4(GreatestNonNegative(DOMAIN tuberia, S_tub) + 1)
       /\ \A w \in Workers :
             CommitOk(w) =>
               /\ DOMAIN tuberia' = DOMAIN tuberia \cup
                     {S_tub \o Pad4(GreatestNonNegative(DOMAIN tuberia, S_tub) + 1)}
               /\ tx[w].data.id \notin DOMAIN tuberia'
               /\ resp'.body = tx[w].new_pipe_id]_vars

\* the next id of type " Pozo " is pz10000 when pz9999 and PZ-001 are stored
C4_Witness ==
    /\ resp.op = "get_next_estructura_id" /\ resp.status = 200
    /\ resp.arg = <<" ", "P", "o", "z", "o", " ">>
    /\ resp.body = <<"p", "z", "1", "0", "0", "0", "0">>
    /\ <<"P", "Z", "-", "0", "0", "1">> \in DOMAIN estructura

-----------------------------------------------------------------------------
(* C5 *)

\* C5: allocation never fails because of the stored ids, and the ids whose
\* remainder is empty, non-numeric or no valid non-negative integer do not
\* count: the identifier returned is the one allocated from the well-formed
\* ids alone.
C5_CorruptIdsAreSkipped ==
    /\ resp.op = "get_next_estructura_id"
       => /\ resp.status = 200
          /\ resp.body =
               FormatId(TipoPrefix(resp.arg),
                        ScanEstructuraRows(
                            WellFormed(DOMAIN estructura, TipoPrefix(resp.arg)),
                            TipoPrefix(resp.arg), ScanStart).max_num)
    /\ resp.op = "get_next_tuberia_id"
       => /\ resp.status = 200
          /\ resp.body =
               FormatId(S_tub,
                        ScanTuberiaRows(WellFormed(DOMAIN tuberia, S_tub),
                                        S_tub, ScanStart).max_num)
    /\ resp.op = "crear_tuberia" => resp.status # 500

\* an id was returned while ids with an empty, a non-numeric and a negative
\* remainder were stored
C5_Witness ==
    /\ resp.op = "get_next_tuberia_id" /\ resp.status = 200
    /\ {S_tub, <<"t", "u", "b", "X", "X">>, <<"t", "u", "b", "-", "5">>}
       \subseteq DOMAIN tuberia

-----------------------------------------------------------------------------
(* C6 *)

\* C6: in every reachable state the start structure and the end structure of
\* every stored pipe belong to projects owned by the user whose request
\* created the pipe.
C6_EndpointsBelongToCreator ==
    \A t \in DOMAIN tuberia :
        /\ EstructuraDeUsuario(tuberia[t].id_estructura_inicio, tuberia[t].creador)
        /\ EstructuraDeUsuario(tuberia[t].id_estructura_destino, tuberia[t].creador)

-----------------------------------------------------------------------------
(* C7 *)

\* the projects, structures and pipes of the project tree of user u
ArbolProyectos(u) == {p \in DOMAIN proyecto : ProyectoDeUsuario(p, u)}
ArbolEstructuras(u) == {e \in DOMAIN estructura : EstructuraDeUsuario(e, u)}
ArbolTuberias(u) ==
    {t \in DOMAIN tuberia :
        \/ EstructuraDeUsuario(tuberia[t].id_estructura_inicio, u)
        \/ EstructuraDeUsuario(tuberia[t].id_estructura_destino, u)}

\* C7: no request authenticated as one user changes or deletes a project, a
\* structure or a pipe of another user's project tree: after a step of a
\* request of user resp'.user every record of any other user's tree is
\* stored as it was.
C7_OnlyOwnRecordsChange ==
    [][\A o \in Usuarios \ {resp'.user} :
          /\ \A p \in ArbolProyectos(o) :
                p \in DOMAIN proyecto' /\ proyecto'[p] = proyecto[p]
          /\ \A e \in ArbolEstructuras(o) :
                e \in DOMAIN estructura' /\ estructura'[e] = estructura[e]
          /\ \A t \in ArbolTuberias(o) :
                t \in DOMAIN tuberia' /\ tuberia'[t] = tuberia[t]]_vars

-----------------------------------------------------------------------------
(* C8 *)

\* the step of a DELETE /estructuras/{id} request
EliminarEstructuraStep == resp'.op = "eliminar_estructura" /\ tx' = tx

\* C8: deleting a structure that has dependent pipes succeeds and removes,
\* with the structure, every pipe that references it as start or as end.
C8_DeleteCascadesToPipes ==
    [][(/\ EliminarEstructuraStep
        /\ resp'.arg \in DOMAIN estructura
        /\ TuberiasDe({resp'.arg}) # {})
       => /\ resp'.status = 200
          /\ resp'.arg \notin DOMAIN estructura'
          /\ \A t \in DOMAIN tuberia' :
                /\ tuberia'[t].id_estructura_inicio # resp'.arg
                /\ tuberia'[t].id_estructura_destino # resp'.arg]_vars

-----------------------------------------------------------------------------
(* C9 *)

\* the structure is stored with a geometry that is a valid POINT
HasPoint(e) ==
    /\ e \in DOMAIN estructura
    /\ estructura[e].geometria # NullText
    /\ ParsePointWkt(estructura[e].geometria).ok

\* the step of a POST /tuberias/ request that ends at one of its checks
CrearTuberiaRejectedStep == resp'.op = "crear_tuberia" /\ tx' = tx

\* C9 as stated: a create-pipe request in which either endpoint structure has
\* no geometry or a geometry that is not a valid POINT fails with 400 and
\* leaves the stored pipes unchanged.
C9_AnyRequesterGets400 ==
    [][(/\ CrearTuberiaRejectedStep
        /\ resp'.arg[1] \in DOMAIN estructura
        /\ resp'.arg[2] \in DOMAIN estructura
        /\ (~HasPoint(resp'.arg[1]) \/ ~HasPoint(resp'.arg[2])))
       => (resp'.status = 400 /\ tuberia' = tuberia)]_vars

\* C9 (amended): a create-pipe request whose endpoints exist and belong to
\* projects of the requesting user,
\* and in which either endpoint has no geometry or a geometry that is not a
\* valid POINT, fails with 400 and leaves the stored pipes unchanged; no
\* request goes on to its INSERT unless both endpoints have a valid POINT.
C9_BadEndpointGeometryIs400 ==
    [][/\ (/\ CrearTuberiaRejectedStep
           /\ EstructuraDeUsuario(resp'.arg[1], resp'.user)
           /\ EstructuraDeUsuario(resp'.arg[2], resp'.user)
           /\ (~HasPoint(resp'.arg[1]) \/ ~HasPoint(resp'.arg[2])))
          => (resp'.status = 400 /\ tuberia' = tuberia)
       /\ \A w \in Workers :
             LeerOk(w) =>
               /\ HasPoint(tx'[w].data.id_estructura_inicio)
               /\ HasPoint(tx'[w].data.id_estructura_destino)
               /\ tuberia' = tuberia]_vars

\* a request was refused with 400 while its start structure had no geometry
\* and its end structure the text POINT(7)
C9_Witness ==
    /\ resp.op = "crear_tuberia" /\ resp.status = 400
    /\ resp.arg = <<E_pz0001, E_sm0001>>
    /\ EstructuraDeUsuario(E_pz0001, resp.user)
    /\ EstructuraDeUsuario(E_sm0001, resp.user)
    /\ estructura[E_pz0001].geometria = NullText
    /\ estructura[E_sm0001].geometria = G_7
    /\ tuberia = <<>>

-----------------------------------------------------------------------------
(* C10 *)

\* the text of the LINESTRING from the point of structure a to the point of
\* structure b
LineStringBetween(a, b) ==
    LET pa == ParsePointWkt(estructura[a].geometria)
        pb == ParsePointWkt(estructura[b].geometria)
    IN  <<"L", "I", "N", "E", "S", "T", "R", "I", "N", "G", "(">>
        \o FormatFloat(pa.x) \o <<" ">> \o FormatFloat(pa.y) \o <<",", " ">>
        \o FormatFloat(pb.x) \o <<" ">> \o FormatFloat(pb.y) \o <<")">>

\* the number of vertices of a LINESTRING text
VertexCount(g) == Len(SplitOn(g, ","))

\* C10: every pipe that crear_tuberia persists has as geometry the LINESTRING
\* of exactly two vertices, the point of the start structure and then the
\* point of the end structure as stored when the request read them; the
\* request body does not enter into it.
C10_GeometryIsStartThenEnd ==
    [][\A w \in Workers :
          /\ LeerOk(w) =>
               /\ tx'[w].geom = LineStringBetween(tx'[w].data.id_estructura_inicio,
                                                  tx'[w].data.id_estructura_destino)
               /\ VertexCount(tx'[w].geom) = 2
          /\ CommitOk(w) =>
               tuberia'[tx[w].new_pipe_id].geometria = tx[w].geom]_vars

\* a pipe from POINT(1 2) to point(-3.5,4.25) is stored
C10_Witness ==
    \E t \in DOMAIN tuberia :
        /\ tuberia[t].geometria =
             <<"L", "I", "N", "E", "S", "T", "R", "I", "N", "G", "(",
               "1", ".", "0", " ", "2", ".", "0", ",", " ",
               "-", "3", ".", "5", " ", "4", ".", "2", "5", ")">>
        /\ tuberia[t].id_estructura_inicio = E_pz0001
        /\ tuberia[t].id_estructura_destino = E_sm0001

-----------------------------------------------------------------------------
(* C11 *)

\* the cota_clave of one end as the rule states it: the elevation of the
\* structure minus the depth when both are present, else the caller's value
ClaveDerivada(est, profundidad, cota_clave) ==
    IF estructura[est].cota_estructura = None \/ profundidad = None
    THEN cota_clave
    ELSE <<estructura[est].cota_estructura[1] - profundidad[1]>>

\* C11: on pipe creation, for each end independently, the stored cota_clave
\* is the endpoint structure's cota_estructura minus the request's
\* profundidad_clave when both are present, whatever cota_clave the caller
\* gave, and otherwise the caller's cota_clave unchanged, which may be absent.
C11_CotaClaveDerived ==
    [][\A w \in Workers :
          /\ LeerOk(w) =>
               /\ tx'[w].cota_clave_inicio_calc =
                    ClaveDerivada(tx'[w].data.id_estructura_inicio,
                                  tx'[w].data.profundidad_clave_inicio,
                                  tx'[w].data.cota_clave_inicio)
               /\ tx'[w].cota_clave_destino_calc =
                    ClaveDerivada(tx'[w].data.id_estructura_destino,
                                  tx'[w].data.profundidad_clave_destino,
                                  tx'[w].data.cota_clave_destino)
          /\ CommitOk(w) =>
               /\ tuberia'[tx[w].new_pipe_id].cota_clave_inicio =
                    tx[w].cota_clave_inicio_calc
               /\ tuberia'[tx[w].new_pipe_id].cota_clave_destino =
                    tx[w].cota_clave_destino_calc]_vars

\* a pipe is stored whose start cota_clave 11.0 was derived from the
\* elevation 12.5 and the depth 1.5, and whose end cota_clave 5.0 is the
\* caller's because the end structure has no elevation
C11_Witness ==
    /\ resp.op = "crear_tuberia" /\ resp.status = 200
    /\ resp.body \in DOMAIN tuberia
    /\ estructura[E_pz0001].cota_estructura = <<1250>>
    /\ estructura[E_sm0001].cota_estructura = None
    /\ tuberia[resp.body].profundidad_clave_inicio = <<150>>
    /\ tuberia[resp.body].cota_clave_inicio = <<1100>>
    /\ tuberia[resp.body].profundidad_clave_destino = <<150>>
    /\ tuberia[resp.body].cota_clave_destino = <<500>>

-----------------------------------------------------------------------------
(* C12 *)

\* C12: in every reachable state each stored structure's identifier starts
\* with the prefix of its type: pz for a well, sm for a drain, es for any
\* other type.
C12_IdPrefixMatchesTipo ==
    \A e \in DOMAIN estructura :
        StartsWith(Lower(e), PrefixOfTipo(estructura[e].tipo))

-----------------------------------------------------------------------------
(* C13 *)

\* the step of a PUT /tuberias/{tuberia_id} request
ActualizarTuberiaStep == resp'.op = "actualizar_tuberia" /\ tx' = tx

\* the value of a field after an update: the body's when present, else the old
Updated(body_value, old_value) == IF body_value # None THEN body_value ELSE old_value

\* C13: a pipe update never changes the pipe's id, its start structure id,
\* its end structure id or its geometry, whatever the request body contains;
\* it changes only the non-geometric, non-identity fields that are present
\* (non-null) in the request, on the pipe it names, and leaves the others and
\* every other pipe unchanged.
C13_UpdateKeepsIdentityAndGeometry ==
    [][ActualizarTuberiaStep =>
         /\ DOMAIN tuberia' = DOMAIN tuberia
         /\ \A t \in DOMAIN tuberia :
               /\ tuberia'[t].geometria = tuberia[t].geometria
               /\ tuberia'[t].id_estructura_inicio = tuberia[t].id_estructura_inicio
               /\ tuberia'[t].id_estructura_destino = tuberia[t].id_estructura_destino
               /\ (t # resp'.arg[1] \/ resp'.status # 200) => tuberia'[t] = tuberia[t]
               /\ (t = resp'.arg[1] /\ resp'.status = 200) =>
                     /\ tuberia'[t].diametro =
                          Updated(resp'.arg[2].diametro, tuberia[t].diametro)
                     /\ tuberia'[t].cota_clave_inicio =
                          Updated(resp'.arg[2].cota_clave_inicio,
                                  tuberia[t].cota_clave_inicio)
                     /\ tuberia'[t].cota_clave_destino =
                          Updated(resp'.arg[2].cota_clave_destino,
                                  tuberia[t].cota_clave_destino)
                     /\ tuberia'[t].profundidad_clave_inicio =
                          Updated(resp'.arg[2].profundidad_clave_inicio,
                                  tuberia[t].profundidad_clave_inicio)
                     /\ tuberia'[t].profundidad_clave_destino =
                          Updated(resp'.arg[2].profundidad_clave_destino,
                                  tuberia[t].profundidad_clave_destino)]_vars

\* an update whose body names another id, other endpoints and another
\* geometry was answered 200: the pipe carries the new diameter, its own
\* endpoints and the geometry derived at its creation
C13_Witness ==
    /\ resp.op = "actualizar_tuberia" /\ resp.status = 200
    /\ resp.arg[2].geometria = G_line_0_9
    /\ resp.arg[2].id_estructura_inicio = E_sm0001
    /\ resp.arg[2].diametro = <<800>>
    /\ resp.arg[2].cota_clave_inicio = None
    /\ resp.arg[1] \in DOMAIN tuberia
    /\ tuberia[resp.arg[1]].diametro = <<800>>
    /\ tuberia[resp.arg[1]].cota_clave_inicio = <<700>>
    /\ tuberia[resp.arg[1]].id_estructura_inicio = E_pz0001
    /\ tuberia[resp.arg[1]].geometria # G_line_0_9

-----------------------------------------------------------------------------
(* The tokens of the WKT inputs as the specification reads them *)

\* the numeric tokens and the number each denotes, in hundredths
NumericTokens == {K_1, K_2, K_m35, K_425}
TokenValue(tok) ==
    CASE tok = K_1 -> 100
      [] tok = K_2 -> 200
      [] tok = K_m35 -> 0 - 350
      [] tok = K_425 -> 425

\* the text ends with ')' once trimmed
ClosesParen(c) == c.close # <<>>

\* a group of exactly two numeric tokens
IsPair(g) == Len(g) = 2 /\ g[1] \in NumericTokens /\ g[2] \in NumericTokens

PairOf(g) == <<TokenValue(g[1]), TokenValue(g[2])>>

\* the pairs of the groups that yield exactly two numeric tokens, in order
RECURSIVE PairsOf(_)
PairsOf(groups) ==
    IF groups = <<>> THEN <<>>
    ELSE (IF IsPair(Head(groups)) THEN <<PairOf(Head(groups))>> ELSE <<>>)
         \o PairsOf(Tail(groups))

-----------------------------------------------------------------------------
(* C14 *)

\* the step of a GET /proyectos/{proyecto_id}/map-data request
MapDataStep == resp'.op = "get_project_map_data" /\ tx' = tx

\* the structure exists and belongs to project pid
InProject(e, pid) == e \in DOMAIN estructura /\ estructura[e].id_proyecto = pid

\* C14: the map payload of a project contains a pipe if and only if the
\* pipe's start structure belongs to that project and the pipe's stored
\* geometry parses to a non-empty coordinate sequence; the end structure's
\* project does not matter, and a pipe whose geometry parses to an empty
\* sequence is dropped without an error: the request fails with 500 only over
\* a geometry that cannot be read.
C14_MapPipes ==
    [][MapDataStep =>
         /\ resp'.status = 200 =>
               \A t \in DOMAIN tuberia :
                  (\E p \in resp'.body.pipes : p.id = t)
                  <=> (/\ InProject(tuberia[t].id_estructura_inicio, resp'.arg)
                       /\ ParseLineStringWkt(tuberia[t].geometria).coords # <<>>)
         /\ resp'.status = 500 =>
               \/ \E e \in DOMAIN estructura :
                     /\ InProject(e, resp'.arg)
                     /\ estructura[e].geometria # NullText
                     /\ ~ParsePointWkt(estructura[e].geometria).ok
               \/ \E t \in DOMAIN tuberia :
                     /\ InProject(tuberia[t].id_estructura_inicio, resp'.arg)
                     /\ ParseLineStringWkt(tuberia[t].geometria).raised]_vars

\* the payload of project 2 holds a pipe that starts at sm0001, of project 2,
\* and ends at pz0001, of project 1
C14_Witness ==
    /\ resp.op = "get_project_map_data" /\ resp.status = 200 /\ resp.arg = 2
    /\ estructura[E_sm0001].id_proyecto = 2
    /\ estructura[E_pz0001].id_proyecto = 1
    /\ \E p \in resp.body.pipes :
          /\ p.id \in DOMAIN tuberia
          /\ tuberia[p.id].id_estructura_inicio = E_sm0001
          /\ tuberia[p.id].id_estructura_destino = E_pz0001

-----------------------------------------------------------------------------
(* C15 *)

\* C15: the map payload of a project lists exactly the structures of that
\* project whose geometry is not null, with lat equal to the point's y and
\* lon equal to the point's x; structures of other projects and structures
\* without geometry never appear.
C15_MapStructures ==
    [][(MapDataStep /\ resp'.status = 200) =>
         resp'.body.structures =
            {[id |-> e, tipo |-> estructura[e].tipo,
              lat |-> ParsePointWkt(estructura[e].geometria).y,
              lon |-> ParsePointWkt(estructura[e].geometria).x] :
               e \in {s \in DOMAIN estructura :
                        /\ estructura[s].id_proyecto = resp'.arg
                        /\ estructura[s].geometria # NullText}}]_vars

\* the payload of project 1 lists pz0001 alone, at lat 2 and lon 1, while
\* es0001 of project 1 has no geometry and sm0001 belongs to project 2
C15_Witness ==
    /\ resp.op = "get_project_map_data" /\ resp.status = 200 /\ resp.arg = 1
    /\ estructura[E_pz0001].geometria = G_1_2
    /\ estructura[E_es0001].id_proyecto = 1
    /\ estructura[E_es0001].geometria = NullText
    /\ estructura[E_sm0001].id_proyecto = 2
    /\ resp.body.structures =
         {[id |-> E_pz0001, tipo |-> S_pozo, lat |-> 200, lon |-> 100]}

-----------------------------------------------------------------------------
(* C16 *)

\* the text matches the LINESTRING(...) envelope
LineEnvelope(c) ==
    /\ Lower(c.tag) = <<"l", "i", "n", "e", "s", "t", "r", "i", "n", "g", "(">>
    /\ ClosesParen(c)

\* C16: parseLineString never raises: for the empty string, for text outside
\* the LINESTRING(...) envelope and for text whose groups are all malformed it
\* returns the empty sequence, and otherwise it skips each group that does not
\* yield exactly two numeric tokens and returns the remaining points in order.
C16_ParseLineStringNeverRaises ==
    resp.op = "parse_linestring" =>
        /\ ~resp.body.raised
        /\ resp.body.value =
             IF LineEnvelope(resp.arg) THEN PairsOf(resp.arg.groups) ELSE <<>>

-----------------------------------------------------------------------------
(* C17 *)

\* the text, once trimmed, starts with 'POINT(' in any case
PointTag(c) == Lower(c.tag) = <<"p", "o", "i", "n", "t", "(">>

\* C17: parsePoint returns (x, y) for every text that, after trimming, starts
\* case-insensitively with 'POINT(', ends with ')' and whose inner content
\* splits on commas or whitespace into exactly two numeric tokens; for every
\* other text it fails with the malformed-geometry error and returns no value.
C17_ParsePoint ==
    resp.op = "parse_point" =>
        IF PointTag(resp.arg) /\ ClosesParen(resp.arg) /\ IsPair(resp.arg.groups[1])
        THEN resp.body = [raised |-> FALSE, value |-> PairOf(resp.arg.groups[1])]
        ELSE resp.body = [raised |-> TRUE, value |-> <<>>]

\* the text " point(-3.5,4.25) " was parsed to (-3.5, 4.25)
C17_Witness ==
    /\ resp.op = "parse_point"
    /\ WktOf(resp.arg) = G_m35_425
    /\ resp.body = [raised |-> FALSE, value |-> <<0 - 350, 425>>]

-----------------------------------------------------------------------------
(* C18 *)

\* C18: pipe identifiers are allocated in increasing order, so that the
\* identifier of a deleted pipe is never issued again; in particular, while
\* the last answer of the service is the successful deletion of a pipe, no
\* create-pipe request stores a pipe under the identifier just deleted.
C18_DeletedIdNeverReissued ==
    [][ (resp.op = "eliminar_tuberia" /\ resp.status = 200)
           => resp.arg \notin DOMAIN tuberia' ]_vars

-----------------------------------------------------------------------------
(* C19 *)

\* C19: the LINESTRING text written by crear_tuberia round-trips through
\* parseLineString: parsing the geometry of a created pipe yields exactly the
\* two pairs [x1, y1], [x2, y2] of its start and end points in that order,
\* formatting the parsed points again gives the same text, and the coords of
\* a pipe in the map payload are the parsed pairs of its stored geometry.
C19_LineStringRoundTrip ==
    [][/\ \A w \in Workers :
             /\ LeerOk(w) =>
                  LET pa == ParsePointWkt(
                              estructura[tx'[w].data.id_estructura_inicio].geometria)
                      pb == ParsePointWkt(
                              estructura[tx'[w].data.id_estructura_destino].geometria)
                      r == ParseLineStringWkt(tx'[w].geom)
                  IN  /\ ~r.raised
                      /\ r.coords = <<<<pa.x, pa.y>>, <<pb.x, pb.y>>>>
                      /\ FormatLineString(r.coords[1][1], r.coords[1][2],
                                          r.coords[2][1], r.coords[2][2])
                         = tx'[w].geom
             /\ CommitOk(w) =>
                  tuberia'[tx[w].new_pipe_id].geometria = tx[w].geom
       /\ (MapDataStep /\ resp'.status = 200) =>
             \A p \in resp'.body.pipes :
                p.coords = ParseLineStringWkt(tuberia[p.id].geometria).coords]_vars

\* the payload holds the pipe created from (0.05, -12.1) to (-3.5, 4.25)
\* with these two pairs as coords
C19_Witness ==
    /\ resp.op = "get_project_map_data" /\ resp.status = 200
    /\ \E p \in resp.body.pipes :
          /\ p.coords = <<<<5, 0 - 1210>>, <<0 - 350, 425>>>>
          /\ p.id \in DOMAIN tuberia
          /\ tuberia[p.id].geometria =
               <<"L", "I", "N", "E", "S", "T", "R", "I", "N", "G", "(",
                 "0", ".", "0", "5", " ", "-", "1", "2", ".", "1", ",", " ",
                 "-", "3", ".", "5", " ", "4", ".", "2", "5", ")">>

-----------------------------------------------------------------------------
(* C20 *)

\* the step in which worker w's INSERT is attempted
CommitStep(w) == tx[w].pc = "commit" /\ tx'[w].pc = "idle"

\* every stored pipe of the table tub references two rows of the table est
EndpointsExist(tub, est) ==
    \A t \in DOMAIN tub :
        /\ tub[t].id_estructura_inicio \in DOMAIN est
        /\ tub[t].id_estructura_destino \in DOMAIN est

\* C20: in every reachable state, also after concurrent create-pipe requests
\* and after structure or project deletions, the stored pipes are told apart
\* by their identifier (a commit never replaces a stored row: it adds at most
\* the one row of its own identifier) and every stored pipe references a
\* start and an end structure that both exist; a create-pipe request whose
\* identifier is taken when it commits answers 500 and persists nothing.
C20_PipeKeysAndEndpoints ==
    [][ /\ EndpointsExist(tuberia', estructura')
        /\ \A w \in Workers :
              CommitStep(w) =>
                 /\ \A t \in DOMAIN tuberia :
                       t \in DOMAIN tuberia' /\ tuberia'[t] = tuberia[t]
                 /\ DOMAIN tuberia' \subseteq
                       DOMAIN tuberia \cup {tx[w].new_pipe_id}
                 /\ tx[w].new_pipe_id \in DOMAIN tuberia =>
                       /\ tuberia' = tuberia
                       /\ estructura' = estructura
                       /\ proyecto' = proyecto
                       /\ resp'.status = 500 ]_vars

\* a project was deleted, a pipe is stored, and the last answer is the 500 of
\* a create-pipe request that committed with the identifier of a stored pipe
\* (both structures exist, so the refusal is over the identifier)
C20_Witness ==
    /\ resp.op = "crear_tuberia" /\ resp.status = 500
    /\ tuberia # <<>>
    /\ resp.arg[1] \in DOMAIN estructura /\ resp.arg[2] \in DOMAIN estructura
    /\ seq_proyecto > Cardinality(DOMAIN proyecto)

-----------------------------------------------------------------------------
(* C21 *)

\* the step of a PUT /estructuras/{id} request
ActualizarEstructuraStep == resp'.op = "actualizar_estructura" /\ tx' = tx

\* the request's body names a destination project that does not exist or is
\* not the requesting user's
DestinoAjeno(data, u) ==
    /\ data.id_proyecto # None
    /\ ~(/\ data.id_proyecto[1] \in DOMAIN proyecto
         /\ proyecto[data.id_proyecto[1]].id_usuario = u)

\* C21: a structure update whose request names a destination project that
\* does not exist or is not owned by the requesting user answers 404 and
\* persists nothing: every field of every stored structure, also the fields
\* the handler assigned before the project check, keeps its value, and so do
\* the projects and the pipes.
C21_BadDestinationPersistsNothing ==
    [][ (ActualizarEstructuraStep /\ DestinoAjeno(resp'.arg[2], resp'.user))
           => /\ resp'.status = 404
              /\ estructura' = estructura
              /\ proyecto' = proyecto
              /\ tuberia' = tuberia ]_vars

\* the last answer is the 404 of user 1's update of its own structure; the
\* body carried a type, a point and an elevation that differ from the stored
\* ones, and a destination project of user 2
C21_Witness ==
    /\ resp.op = "actualizar_estructura" /\ resp.status = 404 /\ resp.user = 1
    /\ resp.arg[1] \in DOMAIN estructura
    /\ estructura[resp.arg[1]].id_proyecto \in DOMAIN proyecto
    /\ proyecto[estructura[resp.arg[1]].id_proyecto].id_usuario = 1
    /\ DestinoAjeno(resp.arg[2], 1)
    /\ resp.arg[2].id_proyecto[1] \in DOMAIN proyecto
    /\ resp.arg[2].tipo \notin {NullText, estructura[resp.arg[1]].tipo}
    /\ resp.arg[2].geometria \notin {NullText, estructura[resp.arg[1]].geometria}
    /\ resp.arg[2].cota_estructura \notin {None, estructura[resp.arg[1]].cota_estructura}


-----------------------------------------------------------------------------
(* C22 *)

\* C22: updating a structure, its geometry or its cota_estructura, leaves the
\* geometria, cota_clave_inicio and cota_clave_destino of every stored pipe
\* as they were, and removes no pipe: they are fixed when the pipe is created
\* and are not derived again when an endpoint moves or changes elevation.
C22_UpdateLeavesPipes ==
    [][ ActualizarEstructuraStep =>
           \A t \in DOMAIN tuberia :
              /\ t \in DOMAIN tuberia'
              /\ tuberia'[t].geometria = tuberia[t].geometria
              /\ tuberia'[t].cota_clave_inicio = tuberia[t].cota_clave_inicio
              /\ tuberia'[t].cota_clave_destino = tuberia[t].cota_clave_destino ]_vars

\* the start structure of a stored pipe has just been given another point and
\* another elevation: the pipe's geometry is no longer the line between the
\* stored points, and its cota_clave_inicio no longer the elevation minus the
\* depth
C22_Witness ==
    /\ resp.op = "actualizar_estructura" /\ resp.status = 200
    /\ resp.arg[2].geometria # NullText /\ resp.arg[2].cota_estructura # None
    /\ \E t \in DOMAIN tuberia :
          /\ tuberia[t].id_estructura_inicio = resp.arg[1]
          /\ tuberia[t].geometria #
                LineStringBetween(tuberia[t].id_estructura_inicio,
                                  tuberia[t].id_estructura_destino)
          /\ tuberia[t].profundidad_clave_inicio # None
          /\ tuberia[t].cota_clave_inicio #
                ClaveDerivada(tuberia[t].id_estructura_inicio,
                              tuberia[t].profundidad_clave_inicio, None)


-----------------------------------------------------------------------------
(* C23 *)

NextIdOps == {"get_next_estructura_id", "get_next_tuberia_id"}

\* the step of a next-id request: it answers, and it is not the read of a
\* create-pipe request (which answers nothing)
NextIdStep == resp'.op \in NextIdOps /\ \A w \in Workers : ~LeerOk(w)

\* C23: the next-id requests change no stored record and reserve nothing.  A
\* next-id step leaves every table and every request in flight as it was;
\* asking again with no create or delete in between returns the same
\* identifier; and the identifier returned is not held for the asker: a
\* create-pipe request that reads next computes that same identifier, and a
\* create-structure request of any user that posts it next, in a project of
\* its own, stores its structure under it.
C23_NextIdReservesNothing ==
    [][ /\ NextIdStep =>
              UNCHANGED <<proyecto, seq_proyecto, estructura, tuberia, tx>>
        /\ (/\ resp.op \in NextIdOps /\ resp.status = 200
            /\ resp'.op = resp.op /\ resp'.arg = resp.arg)
              => (resp'.status = 200 /\ resp'.body = resp.body)
        /\ (resp.op = "get_next_tuberia_id" /\ resp.status = 200)
              => \A w \in Workers : LeerOk(w) => tx'[w].new_pipe_id = resp.body
        /\ (/\ resp.op = "get_next_estructura_id" /\ resp.status = 200
            /\ resp'.op = "crear_estructura" /\ resp'.arg = resp.body
            /\ resp'.status # 404)
              => /\ resp'.status = 200
                 /\ resp.body \notin DOMAIN estructura
                 /\ resp.body \in DOMAIN estructura' ]_vars

\* user 2 asked for the next pipe identifier and got tub0002, nothing else
\* being in flight; now a create-pipe request of user 1 holds tub0002
C23_Witness ==
    /\ resp.op = "get_next_tuberia_id" /\ resp.status = 200 /\ resp.user = 2
    /\ resp.body = FormatId(S_tub, 1)
    /\ DOMAIN tuberia = {FormatId(S_tub, 0)}
    /\ \E w \in Workers :
          /\ tx[w].pc = "commit" /\ tx[w].user = 1
          /\ tx[w].new_pipe_id = resp.body
          /\ \A v \in Workers \ {w} : tx[v].pc = "idle"


=============================================================================
